---- MODULE Spec2Model ----
(***************************************************************************)
(* Model of the resume-screening application.                              *)
(*                                                                         *)
(* Strings are sequences of characters (each character a one-letter TLA+   *)
(* string), Python dicts are functions from key strings to values, lists   *)
(* are sequences.  A free-text experience description is represented by    *)
(* its length, the only thing the code reads of it.                        *)
(*                                                                         *)
(* Floating-point values are modelled as exact reals of the form           *)
(*      num/den - sqrt(disp)/600                                           *)
(* (the only irrational the code produces is the standard deviation of the *)
(* three sub-scores), so that every comparison against a decimal threshold *)
(* is decided exactly with integer arithmetic.                             *)
(***************************************************************************)
EXTENDS Integers, Sequences, FiniteSets, TLC

VARIABLES hashSeed, brain, call, result, earlier,
          client, users, activity_logs, session_state,
          rankings, in_flight

\* the authentication classes' client, the backend tables they use and the
\* Streamlit session states
authVars == <<client, users, activity_logs, session_state>>

\* the rankings table of SupabaseManager, and the sign_up calls that have
\* looked the e-mail up and have not yet inserted the record
dbVars == <<rankings, in_flight>>

vars == <<hashSeed, brain, call, result, earlier, authVars, dbVars>>

----------------------------------------------------------------------------
(* Bounds of the explored inputs *)

MaxReq == 1
MaxMust == 1
MaxExp == 3
MaxMatched == 2
MaxSeed == 1
MaxGaps == 4
MaxUsers == 2
MaxLogs == 1
MaxDevices == 1

MaxRanked == 2

----------------------------------------------------------------------------
(* Python built-ins *)

EmptyDict == <<>>

Get(d, k, default) == IF k \in DOMAIN d THEN d[k] ELSE default

HasKey(d, k) == k \in DOMAIN d

Range(s) == {s[i] : i \in 1..Len(s)}

Min(a, b) == IF a <= b THEN a ELSE b

LowerChar(c) ==
    CASE c = "P" -> "p"
      [] c = "Y" -> "y"
      [] c = "G" -> "g"
      [] c = "O" -> "o"
      [] c = "F" -> "f"
      [] c = "A" -> "a"
      [] c = "I" -> "i"
      [] c = "D" -> "d"
      [] OTHER -> c

Lower(s) == [i \in 1..Len(s) |-> LowerChar(s[i])]

\* Python's `x in s` on strings: x occurs as a contiguous substring of s
IsSubstr(x, s) ==
    \E i \in 0..(Len(s) - Len(x)) : SubSeq(s, i + 1, i + Len(x)) = x

RECURSIVE SumSeq(_)
SumSeq(s) == IF s = <<>> THEN 0 ELSE Head(s) + SumSeq(Tail(s))

RECURSIVE Join(_, _)
Join(parts, sep) ==
    IF parts = <<>> THEN <<>>
    ELSE IF Len(parts) = 1 THEN parts[1]
    ELSE parts[1] \o <<sep>> \o Join(Tail(parts), sep)

\* s[:n]
Prefix(s, n) == SubSeq(s, 1, Min(n, Len(s)))

SeqsUpTo(S, n) == UNION {[1..k -> S] : k \in 0..n}

----------------------------------------------------------------------------
(* Exact arithmetic standing for the code's floats *)

RECURSIVE GCD(_, _)
GCD(a, b) == IF b = 0 THEN a ELSE GCD(b, a % b)

Abs(a) == IF a < 0 THEN -a ELSE a

Frac(n, d) ==
    LET g == GCD(Abs(n), d)
    IN  IF n = 0 THEN [num |-> 0, den |-> 1] ELSE [num |-> n \div g, den |-> d \div g]

FracAdd(x, y) == Frac(x.num * y.den + y.num * x.den, x.den * y.den)

\* w >= c * sqrt(d), for c > 0 and d >= 0
GeSqrt(w, c, d) ==
    LET q == w \div c
        r == w % c
    IN  /\ w >= 0
        /\ \/ q * q >= d
           \/ /\ (q + 1) * (q + 1) > d
              /\ 2 * c * q * r + r * r >= c * c * (d - q * q)

\* the real  x.num/x.den - sqrt(x.disp)/600
Real(f, disp) == [num |-> f.num, den |-> f.den, disp |-> disp]

\* x >= a/b   (b > 0)
RealGE(x, a, b) ==
    LET w == 600 * (x.num * b - a * x.den)
        c == x.den * b
        g == GCD(Abs(w), c)
    IN  GeSqrt(w \div g, c \div g, x.disp)

\* x <= a/b   (b > 0)
RealLE(x, a, b) ==
    LET w == 600 * (x.num * b - a * x.den)
        c == x.den * b
        g == GCD(Abs(w), c)
    IN  \/ w < 0
        \/ (w \div g) * (w \div g) <= (c \div g) * (c \div g) * x.disp

RealOne == [num |-> 1, den |-> 1, disp |-> 0]

ClampToOne_Unclamped(confidence) == confidence

\* min(1.0, confidence)
ClampToOne(confidence) == IF RealGE(confidence, 1, 1) THEN RealOne ELSE confidence

----------------------------------------------------------------------------
(* Enumerations *)

HIGH == "high"
MEDIUM == "medium"
LOW == "low"

AUTO_SHORTLIST == "auto_shortlist"
ASK_QUESTIONS == "ask_questions"
AUTO_REJECT == "auto_reject"

confidence_threshold_high == [num |-> 3, den |-> 4]
confidence_threshold_low == [num |-> 2, den |-> 5]

----------------------------------------------------------------------------
(* Iteration order of a Python set of strings.  It is fixed by the string  *)
(* hashes, which depend on the interpreter's per-process hash seed.        *)

CharCode(c) ==
    CASE c = "p" -> 1
      [] c = "P" -> 2
      [] c = "y" -> 3
      [] c = "g" -> 5
      [] c = "f" -> 6
      [] c = "d" -> 7
      [] OTHER -> 9

RECURSIVE StrKey(_)
StrKey(s) == IF s = <<>> THEN 0 ELSE CharCode(Head(s)) + 10 * StrKey(Tail(s))

StrHash(seed, s) == (StrKey(s) * (seed + 1)) % 7

HashBefore(seed, x, y) ==
    \/ StrHash(seed, x) < StrHash(seed, y)
    \/ StrHash(seed, x) = StrHash(seed, y) /\ StrKey(x) <= StrKey(y)

RECURSIVE ListOfSet(_, _)
ListOfSet(seed, S) ==
    IF S = {} THEN <<>>
    ELSE LET m == CHOOSE x \in S : \A y \in S : HashBefore(seed, x, y)
         IN  <<m>> \o ListOfSet(seed, S \ {m})

----------------------------------------------------------------------------
(* class AgentBrain *)

_extract_critical_skills_MustHaveOnly(seed, job_data) ==
    LET must_have == Get(job_data, "must_have_skills", <<>>)
    IN  ListOfSet(seed, Range(must_have))

\* deduplication that ignores letter case
_extract_critical_skills_CaseFolded(seed, job_data) ==
    LET critical == Get(job_data, "required_skills", <<>>)
        must_have == Get(job_data, "must_have_skills", <<>>)
        all == critical \o must_have
    IN  ListOfSet(seed, {Lower(all[i]) : i \in 1..Len(all)})

_extract_critical_skills(seed, job_data) ==
    LET critical == Get(job_data, "required_skills", <<>>)
        must_have == Get(job_data, "must_have_skills", <<>>)
    IN  ListOfSet(seed, Range(critical \o must_have))

AgentBrain(seed, job_data) ==
    [job_data |-> job_data,
     critical_skills |-> _extract_critical_skills(seed, job_data)]

\* len(exp.get('description', ''))
DescLen(exp) == Get(exp, "description", 0)

FieldFilled_KeyOnly(candidate_data, field) == HasKey(candidate_data, field)

\* candidate_data.get(field) and len(candidate_data[field]) > 0
FieldFilled(candidate_data, field) ==
    HasKey(candidate_data, field) /\ Len(candidate_data[field]) > 0

\* np.std of the three component scores is sqrt(Dispersion)/3
Dispersion(xs) ==
    LET s1 == xs[1] + xs[2] + xs[3]
        s2 == xs[1] * xs[1] + xs[2] * xs[2] + xs[3] * xs[3]
    IN  3 * s2 - s1 * s1

\* Factor 2: critical_coverage * 1.5, or 1.0 without critical skills
CriticalCoverageFactor(self, matched_skills) ==
    LET IsCritical(s) ==
            \E i \in 1..Len(self.critical_skills) :
                IsSubstr(Lower(self.critical_skills[i]), Lower(s))
        matched_critical == SelectSeq(matched_skills, IsCritical)
    IN  IF Len(self.critical_skills) > 0
        THEN Frac(3 * Len(matched_critical), 2 * Len(self.critical_skills))
        ELSE Frac(1, 1)

_calculate_confidence(self, candidate_data, match_scores, matched_skills, missing_skills) ==
    LET required_fields == {"experience", "skills", "education"}
        completeness ==
            Frac(Cardinality({f \in required_fields : FieldFilled(candidate_data, f)}), 3)
        coverage == CriticalCoverageFactor(self, matched_skills)
        experiences == Get(candidate_data, "experience", <<>>)
        total_description_length ==
            SumSeq([i \in 1..Len(experiences) |-> DescLen(experiences[i])])
        detail_score ==
            IF Len(experiences) > 0
            THEN IF total_description_length >= 200 * Len(experiences)
                 THEN Frac(1, 1)
                 ELSE Frac(total_description_length, 200 * Len(experiences))
            ELSE Frac(3, 10)
        component_scores ==
            <<Get(match_scores, "skills_score", 0),
              Get(match_scores, "experience_score", 0),
              Get(match_scores, "education_score", 0)>>
        disp == Dispersion(component_scores)
        \* consistency = max(0, 1 - std/50) = max(0, 1 - sqrt(disp)/150)
        floored == disp >= 150 * 150
        rational ==
            FracAdd(FracAdd(completeness, coverage),
                    FracAdd(detail_score, IF floored THEN Frac(0, 1) ELSE Frac(1, 1)))
        \* np.mean of the four factors
        confidence ==
            Real(Frac(rational.num, 4 * rational.den), IF floored THEN 0 ELSE disp)
    IN  ClampToOne(confidence)

_identify_gaps_CaseSensitive(self, candidate_data, matched_skills, missing_skills) ==
    LET Evidence(critical_skill) ==
            \E i \in 1..Len(matched_skills) :
                IsSubstr(critical_skill, matched_skills[i])
        lacking == SelectSeq(self.critical_skills, LAMBDA c : ~Evidence(c))
        skill_notes == [i \in 1..Len(lacking) |-> <<"No evidence of ">> \o lacking[i]]
        experiences == Get(candidate_data, "experience", <<>>)
        vague_count ==
            Cardinality({i \in 1..Len(experiences) : DescLen(experiences[i]) < 50})
        exp_notes ==
            IF Len(experiences) = 0 THEN << <<"No work experience details">> >>
            ELSE IF 2 * vague_count > Len(experiences)
                 THEN << <<"Work experience lacks detail">> >>
                 ELSE <<>>
        exp_gaps == IF Len(experiences) = 0 THEN << <<"work_experience">> >> ELSE <<>>
        projects == Get(candidate_data, "projects", <<>>)
        no_projects ==
            /\ Get(self.job_data, "min_experience", 0) < 2
            /\ Len(projects) = 0
        proj_notes == IF no_projects THEN << <<"No projects mentioned">> >> ELSE <<>>
        proj_gaps ==
            IF no_projects /\ Len(experiences) = 0 THEN << <<"projects">> >> ELSE <<>>
    IN  [missing_info |-> skill_notes \o exp_notes \o proj_notes,
         critical_gaps |-> lacking \o exp_gaps \o proj_gaps]

\* an experience list counted as vague from half of its entries on
_identify_gaps_HalfIsVague(self, candidate_data, matched_skills, missing_skills) ==
    LET Evidence(critical_skill) ==
            \E i \in 1..Len(matched_skills) :
                IsSubstr(Lower(critical_skill), Lower(matched_skills[i]))
        lacking == SelectSeq(self.critical_skills, LAMBDA c : ~Evidence(c))
        skill_notes == [i \in 1..Len(lacking) |-> <<"No evidence of ">> \o lacking[i]]
        experiences == Get(candidate_data, "experience", <<>>)
        vague_count ==
            Cardinality({i \in 1..Len(experiences) : DescLen(experiences[i]) < 50})
        exp_notes ==
            IF Len(experiences) = 0 THEN << <<"No work experience details">> >>
            ELSE IF 2 * vague_count >= Len(experiences)
                 THEN << <<"Work experience lacks detail">> >>
                 ELSE <<>>
        exp_gaps == IF Len(experiences) = 0 THEN << <<"work_experience">> >> ELSE <<>>
        projects == Get(candidate_data, "projects", <<>>)
        no_projects ==
            /\ Get(self.job_data, "min_experience", 0) < 2
            /\ Len(projects) = 0
        proj_notes == IF no_projects THEN << <<"No projects mentioned">> >> ELSE <<>>
        proj_gaps ==
            IF no_projects /\ Len(experiences) = 0 THEN << <<"projects">> >> ELSE <<>>
    IN  [missing_info |-> skill_notes \o exp_notes \o proj_notes,
         critical_gaps |-> lacking \o exp_gaps \o proj_gaps]

\* the projects gap raised whatever the job's minimum experience
_identify_gaps_AnyMinExperience(self, candidate_data, matched_skills, missing_skills) ==
    LET Evidence(critical_skill) ==
            \E i \in 1..Len(matched_skills) :
                IsSubstr(Lower(critical_skill), Lower(matched_skills[i]))
        lacking == SelectSeq(self.critical_skills, LAMBDA c : ~Evidence(c))
        skill_notes == [i \in 1..Len(lacking) |-> <<"No evidence of ">> \o lacking[i]]
        experiences == Get(candidate_data, "experience", <<>>)
        vague_count ==
            Cardinality({i \in 1..Len(experiences) : DescLen(experiences[i]) < 50})
        exp_notes ==
            IF Len(experiences) = 0 THEN << <<"No work experience details">> >>
            ELSE IF 2 * vague_count > Len(experiences)
                 THEN << <<"Work experience lacks detail">> >>
                 ELSE <<>>
        exp_gaps == IF Len(experiences) = 0 THEN << <<"work_experience">> >> ELSE <<>>
        projects == Get(candidate_data, "projects", <<>>)
        no_projects == Len(projects) = 0
        proj_notes == IF no_projects THEN << <<"No projects mentioned">> >> ELSE <<>>
        proj_gaps ==
            IF no_projects /\ Len(experiences) = 0 THEN << <<"projects">> >> ELSE <<>>
    IN  [missing_info |-> skill_notes \o exp_notes \o proj_notes,
         critical_gaps |-> lacking \o exp_gaps \o proj_gaps]

\* the skill gaps taken from missing_skills instead of the matched skills
_identify_gaps_FromMissingSkills(self, candidate_data, matched_skills, missing_skills) ==
    LET lacking == SelectSeq(self.critical_skills, LAMBDA c : c \in Range(missing_skills))
        skill_notes == [i \in 1..Len(lacking) |-> <<"No evidence of ">> \o lacking[i]]
        experiences == Get(candidate_data, "experience", <<>>)
        vague_count ==
            Cardinality({i \in 1..Len(experiences) : DescLen(experiences[i]) < 50})
        exp_notes ==
            IF Len(experiences) = 0 THEN << <<"No work experience details">> >>
            ELSE IF 2 * vague_count > Len(experiences)
                 THEN << <<"Work experience lacks detail">> >>
                 ELSE <<>>
        exp_gaps == IF Len(experiences) = 0 THEN << <<"work_experience">> >> ELSE <<>>
        projects == Get(candidate_data, "projects", <<>>)
        no_projects ==
            /\ Get(self.job_data, "min_experience", 0) < 2
            /\ Len(projects) = 0
        proj_notes == IF no_projects THEN << <<"No projects mentioned">> >> ELSE <<>>
        proj_gaps ==
            IF no_projects /\ Len(experiences) = 0 THEN << <<"projects">> >> ELSE <<>>
    IN  [missing_info |-> skill_notes \o exp_notes \o proj_notes,
         critical_gaps |-> lacking \o exp_gaps \o proj_gaps]

_identify_gaps(self, candidate_data, matched_skills, missing_skills) ==
    LET Evidence(critical_skill) ==
            \E i \in 1..Len(matched_skills) :
                IsSubstr(Lower(critical_skill), Lower(matched_skills[i]))
        lacking == SelectSeq(self.critical_skills, LAMBDA c : ~Evidence(c))
        skill_notes == [i \in 1..Len(lacking) |-> <<"No evidence of ">> \o lacking[i]]
        experiences == Get(candidate_data, "experience", <<>>)
        vague_count ==
            Cardinality({i \in 1..Len(experiences) : DescLen(experiences[i]) < 50})
        exp_notes ==
            IF Len(experiences) = 0 THEN << <<"No work experience details">> >>
            ELSE IF 2 * vague_count > Len(experiences)
                 THEN << <<"Work experience lacks detail">> >>
                 ELSE <<>>
        exp_gaps == IF Len(experiences) = 0 THEN << <<"work_experience">> >> ELSE <<>>
        projects == Get(candidate_data, "projects", <<>>)
        no_projects ==
            /\ Get(self.job_data, "min_experience", 0) < 2
            /\ Len(projects) = 0
        proj_notes == IF no_projects THEN << <<"No projects mentioned">> >> ELSE <<>>
        proj_gaps ==
            IF no_projects /\ Len(experiences) = 0 THEN << <<"projects">> >> ELSE <<>>
    IN  [missing_info |-> skill_notes \o exp_notes \o proj_notes,
         critical_gaps |-> lacking \o exp_gaps \o proj_gaps]

_determine_confidence_level_Exclusive(confidence_score) ==
    IF ~RealLE(confidence_score, confidence_threshold_high.num, confidence_threshold_high.den)
    THEN HIGH
    ELSE IF ~RealLE(confidence_score, confidence_threshold_low.num, confidence_threshold_low.den)
         THEN MEDIUM
         ELSE LOW

_determine_confidence_level(confidence_score) ==
    IF RealGE(confidence_score, confidence_threshold_high.num, confidence_threshold_high.den)
    THEN HIGH
    ELSE IF RealGE(confidence_score, confidence_threshold_low.num, confidence_threshold_low.den)
         THEN MEDIUM
         ELSE LOW

_make_decision_HighChecksGaps(confidence_level, critical_gaps, base_score) ==
    IF confidence_level = HIGH /\ critical_gaps = <<>> THEN AUTO_SHORTLIST
    ELSE IF confidence_level # LOW
         THEN IF critical_gaps # <<>> THEN ASK_QUESTIONS
              ELSE IF base_score >= 60 THEN AUTO_SHORTLIST ELSE ASK_QUESTIONS
         ELSE IF Len(critical_gaps) <= 2 /\ base_score >= 40
              THEN ASK_QUESTIONS
              ELSE AUTO_REJECT

_make_decision_StrictSixty(confidence_level, critical_gaps, base_score) ==
    IF confidence_level = HIGH THEN AUTO_SHORTLIST
    ELSE IF confidence_level = MEDIUM
         THEN IF critical_gaps # <<>> THEN ASK_QUESTIONS
              ELSE IF base_score > 60 THEN AUTO_SHORTLIST ELSE ASK_QUESTIONS
         ELSE IF Len(critical_gaps) <= 2 /\ base_score >= 40
              THEN ASK_QUESTIONS
              ELSE AUTO_REJECT

_make_decision_FewerGaps(confidence_level, critical_gaps, base_score) ==
    IF confidence_level = HIGH THEN AUTO_SHORTLIST
    ELSE IF confidence_level = MEDIUM
         THEN IF critical_gaps # <<>> THEN ASK_QUESTIONS
              ELSE IF base_score >= 60 THEN AUTO_SHORTLIST ELSE ASK_QUESTIONS
         ELSE IF Len(critical_gaps) < 2 /\ base_score >= 40
              THEN ASK_QUESTIONS
              ELSE AUTO_REJECT

_make_decision_MediumIgnoresGaps(confidence_level, critical_gaps, base_score) ==
    IF confidence_level = HIGH THEN AUTO_SHORTLIST
    ELSE IF confidence_level = MEDIUM
         THEN IF base_score >= 60 THEN AUTO_SHORTLIST ELSE ASK_QUESTIONS
         ELSE IF Len(critical_gaps) <= 2 /\ base_score >= 40
              THEN ASK_QUESTIONS
              ELSE AUTO_REJECT

_make_decision(confidence_level, critical_gaps, base_score) ==
    IF confidence_level = HIGH THEN AUTO_SHORTLIST
    ELSE IF confidence_level = MEDIUM
         THEN IF critical_gaps # <<>> THEN ASK_QUESTIONS
              ELSE IF base_score >= 60 THEN AUTO_SHORTLIST ELSE ASK_QUESTIONS
         ELSE IF Len(critical_gaps) <= 2 /\ base_score >= 40
              THEN ASK_QUESTIONS
              ELSE AUTO_REJECT

_confidence_label(score) ==
    IF RealGE(score, 3, 4) THEN "HIGH"
    ELSE IF RealGE(score, 2, 5) THEN "MEDIUM"
    ELSE "LOW"

\* f"{score:.1f}": the tenths the score is printed with.  Where the exact
\* value lies midway between two tenths, the digit the code prints depends on
\* the rounding error of the float sum: both neighbours are admitted.
Tenths(score) ==
    LET up == Cardinality({t \in 1..10 : RealGE(score, 2 * t - 1, 20)})
    IN  IF up >= 1 /\ RealLE(score, 2 * up - 1, 20) THEN {up - 1, up} ELSE {up}

FormatTenths(t) == IF t >= 10 THEN "1.0" ELSE "0." \o ToString(t)

_generate_reasoning_AllEntries(base_score, confidence_score, missing_info, critical_gaps, decision) ==
    LET score_line == << <<"Match score: ", ToString(base_score), ".0", "%">> >>
        conf_line(t) ==
            << <<"Confidence: ", FormatTenths(t), " (",
                 _confidence_label(confidence_score), ")">> >>
        info_line ==
            IF missing_info # <<>>
            THEN << <<"Missing information: ">> \o Join(missing_info, ", ") >>
            ELSE <<>>
        gaps_line ==
            IF critical_gaps # <<>>
            THEN << <<"Critical gaps: ">> \o Join(critical_gaps, ", ") >>
            ELSE <<>>
        decision_line ==
            IF decision = AUTO_SHORTLIST
            THEN << <<"High confidence - automatically shortlisted">> >>
            ELSE IF decision = ASK_QUESTIONS
                 THEN << <<"Medium confidence - follow-up questions needed">> >>
                 ELSE << <<"Low confidence - does not meet requirements">> >>
    IN  {score_line \o conf_line(t) \o info_line \o gaps_line \o decision_line :
            t \in Tenths(confidence_score)}

\* the critical-gaps line put before the missing-information line
_generate_reasoning_GapsFirst(base_score, confidence_score, missing_info, critical_gaps, decision) ==
    LET score_line == << <<"Match score: ", ToString(base_score), ".0", "%">> >>
        conf_line(t) ==
            << <<"Confidence: ", FormatTenths(t), " (",
                 _confidence_label(confidence_score), ")">> >>
        info_line ==
            IF missing_info # <<>>
            THEN << <<"Missing information: ">> \o Join(Prefix(missing_info, 3), ", ") >>
            ELSE <<>>
        gaps_line ==
            IF critical_gaps # <<>>
            THEN << <<"Critical gaps: ">> \o Join(Prefix(critical_gaps, 3), ", ") >>
            ELSE <<>>
        decision_line ==
            IF decision = AUTO_SHORTLIST
            THEN << <<"High confidence - automatically shortlisted">> >>
            ELSE IF decision = ASK_QUESTIONS
                 THEN << <<"Medium confidence - follow-up questions needed">> >>
                 ELSE << <<"Low confidence - does not meet requirements">> >>
    IN  {score_line \o conf_line(t) \o gaps_line \o info_line \o decision_line :
            t \in Tenths(confidence_score)}

_generate_reasoning(base_score, confidence_score, missing_info, critical_gaps, decision) ==
    LET score_line == << <<"Match score: ", ToString(base_score), ".0", "%">> >>
        conf_line(t) ==
            << <<"Confidence: ", FormatTenths(t), " (",
                 _confidence_label(confidence_score), ")">> >>
        info_line ==
            IF missing_info # <<>>
            THEN << <<"Missing information: ">> \o Join(Prefix(missing_info, 3), ", ") >>
            ELSE <<>>
        gaps_line ==
            IF critical_gaps # <<>>
            THEN << <<"Critical gaps: ">> \o Join(Prefix(critical_gaps, 3), ", ") >>
            ELSE <<>>
        decision_line ==
            IF decision = AUTO_SHORTLIST
            THEN << <<"High confidence - automatically shortlisted">> >>
            ELSE IF decision = ASK_QUESTIONS
                 THEN << <<"Medium confidence - follow-up questions needed">> >>
                 ELSE << <<"Low confidence - does not meet requirements">> >>
    IN  {score_line \o conf_line(t) \o info_line \o gaps_line \o decision_line :
            t \in Tenths(confidence_score)}

Raised(exception, key) == [kind |-> "raised", exception |-> exception, key |-> key]

Returned(value) == [kind |-> "returned", value |-> value]

\* the outcomes of one call: an exception, or the CandidateAnalysis returned
\* (one value, but for the printed tenths of a midway confidence score)
analyze_candidate(self, candidate_data, match_scores) ==
    IF ~HasKey(match_scores, "overall_score") THEN {Raised("KeyError", "overall_score")}
    ELSE IF ~HasKey(match_scores, "skills_score") THEN {Raised("KeyError", "skills_score")}
    ELSE IF ~HasKey(match_scores, "experience_score")
         THEN {Raised("KeyError", "experience_score")}
    ELSE
    LET base_score == match_scores["overall_score"]
        matched_skills == Get(match_scores, "matched_skills", <<>>)
        missing_skills == Get(match_scores, "missing_skills", <<>>)
        confidence_score ==
            _calculate_confidence(self, candidate_data, match_scores,
                                  matched_skills, missing_skills)
        gaps == _identify_gaps(self, candidate_data, matched_skills, missing_skills)
        confidence_level == _determine_confidence_level(confidence_score)
        decision == _make_decision(confidence_level, gaps.critical_gaps, base_score)
        reasonings ==
            _generate_reasoning(base_score, confidence_score, gaps.missing_info,
                                gaps.critical_gaps, decision)
    IN  IF ~HasKey(candidate_data, "contact") THEN {Raised("KeyError", "contact")}
        ELSE {Returned(
            [candidate_name |-> Get(candidate_data["contact"], "name", <<"Unknown">>),
             candidate_email |-> Get(candidate_data["contact"], "email", <<>>),
             base_score |-> base_score,
             confidence_score |-> confidence_score,
             confidence_level |-> confidence_level,
             decision |-> decision,
             reasoning |-> reasoning,
             missing_info |-> gaps.missing_info,
             critical_gaps |-> gaps.critical_gaps,
             matched_skills |-> matched_skills,
             missing_skills |-> missing_skills]) : reasoning \in reasonings}

----------------------------------------------------------------------------
(* Inputs *)

\* an optional dict entry: opt is <<>> (key absent) or <<value>>
Entry(key, opt) == IF opt = <<>> THEN EmptyDict ELSE key :> opt[1]

Absent == <<>>

Present(S) == {<<v>> : v \in S}

OrAbsent(S) == {Absent} \cup Present(S)

RequiredSkillNames == {<<"p">>, <<"g">>}

MustHaveSkillNames == {<<"P">>}

MatchedSkillNames == {<<"P", "y">>, <<"g">>}

MinExperiences == {2}

JobDatas ==
    {Entry("required_skills", <<r>>) @@ Entry("must_have_skills", m)
        @@ Entry("min_experience", e) :
        r \in SeqsUpTo(RequiredSkillNames, MaxReq),
        m \in OrAbsent(SeqsUpTo(MustHaveSkillNames, MaxMust) \ {<<>>}),
        e \in OrAbsent(MinExperiences)}

Seeds == 0..MaxSeed

\* description lengths of the experience entries
DescLens == {160}

ExperienceEntries == {EmptyDict} \cup {"description" :> n : n \in DescLens}

FullContact == ("name" :> <<"A">>) @@ ("email" :> <<"a", "@">>)

Skills == << <<"programming">> >>

Education == << <<"degree">> >>

Projects == << <<"project">> >>

MakeCandidate(contact, experience, skills, education, projects) ==
    Entry("contact", contact) @@ Entry("experience", experience)
        @@ Entry("skills", skills) @@ Entry("education", education)
        @@ Entry("projects", projects)

CandidateDatas ==
    {MakeCandidate(<<FullContact>>, <<x>>, k, d, j) :
        x \in SeqsUpTo(ExperienceEntries, MaxExp),
        k \in OrAbsent({Skills}),
        d \in OrAbsent({Education}),
        j \in OrAbsent({Projects})}

OverallScores == {30, 40, 60, 75}

SkillsScores == {0, 100}

ExperienceScores == {100}

EducationScores == {100}

MakeScores(overall, skills, experience, education, matched, missing) ==
    Entry("overall_score", overall) @@ Entry("skills_score", skills)
        @@ Entry("experience_score", experience)
        @@ Entry("education_score", education)
        @@ Entry("matched_skills", matched) @@ Entry("missing_skills", missing)

MatchScores ==
    {MakeScores(<<o>>, <<s>>, <<x>>, <<d>>, <<m>>, << <<>> >>) :
        o \in OverallScores, s \in SkillsScores, x \in ExperienceScores,
        d \in EducationScores,
        m \in SeqsUpTo(MatchedSkillNames, MaxMatched)}

\* records with any subset of the fields absent
PartialJobDatas ==
    {Entry("required_skills", r) @@ Entry("min_experience", e) :
        r \in OrAbsent({<< <<"p">> >>}), e \in OrAbsent(MinExperiences)}

PartialContacts ==
    {Entry("name", n) @@ Entry("email", e) :
        n \in OrAbsent({<<"A">>}), e \in OrAbsent({<<"a", "@">>})}

PartialCandidateDatas ==
    {MakeCandidate(c, x, k, d, j) :
        c \in OrAbsent(PartialContacts),
        x \in OrAbsent({<<"description" :> 160>>}),
        k \in OrAbsent({Skills}),
        d \in OrAbsent({Education}),
        j \in OrAbsent({Projects})}

PartialMatchScores ==
    {MakeScores(o, s, x, d, m, g) :
        o \in OrAbsent({60}), s \in OrAbsent({100}), x \in OrAbsent({100}),
        d \in OrAbsent({100}),
        m \in OrAbsent({<< <<"P", "y">> >>}), g \in OrAbsent({<< <<"g">> >>})}

\* the inputs of the repeated-call scenario
RepeatJobDatas ==
    {Entry("required_skills", <<r>>) @@ Entry("must_have_skills", << << <<"P">> >> >>) :
        r \in {<< <<"g">> >>, << <<"p">> >>}}

RepeatCandidateDatas ==
    {MakeCandidate(<<FullContact>>, <<x>>, <<Skills>>, <<Education>>, Absent) :
        x \in {<<>>, <<"description" :> 160>>}}

RepeatMatchScores ==
    {MakeScores(<<o>>, <<100>>, <<100>>, <<100>>, <<m>>, << <<>> >>) :
        o \in {40, 75}, m \in {<<>>, << <<"g">> >>}}

\* the sample data of test_agent_brain
Python == <<"P", "y", "t", "h", "o", "n">>

FastAPI == <<"F", "a", "s", "t", "A", "P", "I">>

Docker == <<"D", "o", "c", "k", "e", "r">>

Flask == <<"F", "l", "a", "s", "k">>

ExampleJob ==
    ("title" :> <<"Senior Python Developer">>)
        @@ ("required_skills" :> <<Python, FastAPI, Docker>>)
        @@ ("must_have_skills" :> <<Python, FastAPI>>)
        @@ ("min_experience" :> 3)

ExampleJobDatas ==
    {ExampleJob,
     ("title" :> <<"Senior Python Developer">>)
        @@ ("required_skills" :> <<Python, FastAPI, Docker>>)
        @@ ("min_experience" :> 3)}

ExampleContact == ("name" :> <<"Test Candidate">>) @@ ("email" :> <<"test@example.com">>)

\* the sample description has 88 characters; the specification's example
\* speaks of 90
ExampleDescLens == {88, 90}

ExampleSkills == << <<"programming">>, <<"frameworks">> >>

ExampleCandidate(n) ==
    ("contact" :> ExampleContact)
        @@ ("experience" :>
               << ("title" :> <<"Software Engineer">>) @@ ("description" :> n) >>)
        @@ ("skills" :> ExampleSkills)
        @@ ("projects" :> <<>>)

ExampleCandidates == {ExampleCandidate(n) : n \in ExampleDescLens}

ExampleCandidateDatas ==
    {c @@ Entry("education", d) : c \in ExampleCandidates, d \in OrAbsent({Education})}
        \cup {MakeCandidate(<<ExampleContact>>, << <<>> >>, <<ExampleSkills>>,
                            Absent, << <<>> >>)}

ExampleScores ==
    MakeScores(<<65>>, <<60>>, <<70>>, <<65>>,
               << <<Python, Flask>> >>, << <<FastAPI, Docker>> >>)

ExampleMatchScores ==
    {MakeScores(<<o>>, <<60>>, <<70>>, <<65>>, <<m>>, << <<FastAPI, Docker>> >>) :
        o \in {39, 59, 65},
        m \in {<<Python, Flask>>, <<Flask>>, <<Python, FastAPI, Docker>>}}

----------------------------------------------------------------------------
(* The program: one interpreter process holding one AgentBrain, and a      *)
(* caller that builds the brain, calls analyze_candidate and consumes the  *)
(* analysis.                                                               *)

NoCall == [made |-> FALSE]

NoResult == [kind |-> "none"]

NoEarlier == [kept |-> FALSE]

InitAgent(jobs) ==
    /\ hashSeed \in Seeds
    /\ \E job_data \in jobs : brain = AgentBrain(hashSeed, job_data)
    /\ call = NoCall
    /\ result = NoResult
    /\ earlier = NoEarlier

\* no authentication object has been built and no session is open
NoClient == [type |-> "NoneType"]

NoSessions ==
    /\ client = NoClient
    /\ users = <<>>
    /\ activity_logs = <<>>
    /\ session_state = <<>>
    /\ rankings = <<>>
    /\ in_flight = <<>>

InitOver(jobs) == InitAgent(jobs) /\ NoSessions

\* agent = AgentBrain(job_data)
NewAgentBrain(job_data) ==
    /\ ~call.made
    /\ brain' = AgentBrain(hashSeed, job_data)
    /\ UNCHANGED <<hashSeed, call, result, earlier, authVars, dbVars>>

\* analysis = agent.analyze_candidate(candidate_data, match_scores)
Analyze(candidate_data, match_scores) ==
    /\ ~call.made
    /\ call' = [made |-> TRUE, candidate_data |-> candidate_data,
                match_scores |-> match_scores]
    /\ result' \in analyze_candidate(brain, candidate_data, match_scores)
    /\ UNCHANGED <<hashSeed, brain, earlier, authVars, dbVars>>

\* the caller has consumed the analysis (or the exception) and goes on
Finish ==
    /\ call.made
    /\ call' = NoCall
    /\ result' = NoResult
    /\ UNCHANGED <<hashSeed, brain, earlier, authVars, dbVars>>

\* as Finish, the observer keeping the finished call to compare a later one with
FinishKept ==
    /\ call.made
    /\ earlier' = [kept |-> TRUE, seed |-> hashSeed, job_data |-> brain.job_data,
                   call |-> call, result |-> result]
    /\ call' = NoCall
    /\ result' = NoResult
    /\ UNCHANGED <<hashSeed, brain, authVars, dbVars>>

\* the interpreter is started again: a new hash seed, a new AgentBrain
RestartProcess(seed, job_data) ==
    /\ ~call.made
    /\ hashSeed' = seed
    /\ brain' = AgentBrain(seed, job_data)
    /\ UNCHANGED <<call, result, earlier, authVars, dbVars>>

Init == InitOver(JobDatas)

Next ==
    \/ /\ ~call.made
       /\ \E job_data \in JobDatas : NewAgentBrain(job_data)
    \/ /\ ~call.made
       /\ \E candidate_data \in CandidateDatas, match_scores \in MatchScores :
              Analyze(candidate_data, match_scores)
    \/ Finish
    \/ /\ ~call.made
       /\ \E seed \in Seeds, job_data \in JobDatas : RestartProcess(seed, job_data)

Spec == Init /\ [][Next]_vars

\* callers passing records with any subset of the fields absent
InitPartial == InitOver(PartialJobDatas)

NextPartial ==
    \/ /\ ~call.made
       /\ \E job_data \in PartialJobDatas : NewAgentBrain(job_data)
    \/ /\ ~call.made
       /\ \E candidate_data \in PartialCandidateDatas, match_scores \in PartialMatchScores :
              Analyze(candidate_data, match_scores)
    \/ Finish
    \/ /\ ~call.made
       /\ \E seed \in Seeds, job_data \in PartialJobDatas : RestartProcess(seed, job_data)

SpecPartial == InitPartial /\ [][NextPartial]_vars

\* repeated calls, one finished call being kept for comparison
InitRepeat == InitOver(RepeatJobDatas)

NextRepeat ==
    \/ /\ ~call.made
       /\ \E job_data \in RepeatJobDatas : NewAgentBrain(job_data)
    \/ /\ ~call.made
       /\ \E candidate_data \in RepeatCandidateDatas, match_scores \in RepeatMatchScores :
              Analyze(candidate_data, match_scores)
    \/ Finish
    \/ FinishKept
    \/ /\ ~call.made
       /\ \E seed \in Seeds, job_data \in RepeatJobDatas : RestartProcess(seed, job_data)

SpecRepeat == InitRepeat /\ [][NextRepeat]_vars

\* the sample call of test_agent_brain and calls close to it
InitExample == InitOver(ExampleJobDatas)

NextExample ==
    \/ /\ ~call.made
       /\ \E job_data \in ExampleJobDatas : NewAgentBrain(job_data)
    \/ /\ ~call.made
       /\ \E candidate_data \in ExampleCandidateDatas, match_scores \in ExampleMatchScores :
              Analyze(candidate_data, match_scores)
    \/ Finish
    \/ /\ ~call.made
       /\ \E seed \in Seeds, job_data \in ExampleJobDatas : RestartProcess(seed, job_data)

SpecExample == InitExample /\ [][NextExample]_vars

\* jobs whose two skill lists repeat a skill and spell one in two letter cases
SkillJobDatas ==
    {Entry("required_skills", <<r>>) @@ Entry("must_have_skills", m) :
        r \in SeqsUpTo({<<"p">>, <<"P">>, <<"g">>}, 2),
        m \in OrAbsent(SeqsUpTo({<<"p">>, <<"P">>}, 2))}

SkillCandidateDatas ==
    {MakeCandidate(<<FullContact>>, <<x>>, <<Skills>>, <<Education>>, Absent) :
        x \in {<<>>, <<"description" :> 160>>}}

\* missing_skills is empty, or names skills whether or not they are matched
SkillMatchScores ==
    {MakeScores(<<60>>, <<100>>, <<100>>, <<100>>, <<m>>, <<g>>) :
        m \in SeqsUpTo({<<"P", "y">>, <<"p">>, <<"g">>}, 2),
        g \in {<<>>, << <<"p">>, <<"g">> >>}}

InitSkills == InitOver(SkillJobDatas)

NextSkills ==
    \/ /\ ~call.made
       /\ \E job_data \in SkillJobDatas : NewAgentBrain(job_data)
    \/ /\ ~call.made
       /\ \E candidate_data \in SkillCandidateDatas, match_scores \in SkillMatchScores :
              Analyze(candidate_data, match_scores)
    \/ Finish
    \/ /\ ~call.made
       /\ \E seed \in Seeds, job_data \in SkillJobDatas : RestartProcess(seed, job_data)

SpecSkills == InitSkills /\ [][NextSkills]_vars

\* candidates with up to three experience entries, described in 49 or 50
\* characters or not at all, with and without projects, for jobs with and
\* without a minimum experience
GapJobDatas ==
    {Entry("required_skills", << << <<"g">> >> >>) @@ Entry("min_experience", e) :
        e \in OrAbsent({0, 1, 2, 3})}

GapExperienceEntries == {EmptyDict} \cup {"description" :> n : n \in {49, 50}}

GapCandidateDatas ==
    {MakeCandidate(<<FullContact>>, x, <<Skills>>, <<Education>>, j) :
        x \in OrAbsent(SeqsUpTo(GapExperienceEntries, MaxExp)),
        j \in OrAbsent({<<>>, Projects})}

GapMatchScores ==
    {MakeScores(<<60>>, <<100>>, <<100>>, <<100>>, <<m>>, << <<>> >>) :
        m \in {<<>>, << <<"g">> >>}}

InitGaps == InitOver(GapJobDatas)

NextGaps ==
    \/ /\ ~call.made
       /\ \E job_data \in GapJobDatas : NewAgentBrain(job_data)
    \/ /\ ~call.made
       /\ \E candidate_data \in GapCandidateDatas, match_scores \in GapMatchScores :
              Analyze(candidate_data, match_scores)
    \/ Finish
    \/ /\ ~call.made
       /\ \E seed \in Seeds, job_data \in GapJobDatas : RestartProcess(seed, job_data)

SpecGaps == InitGaps /\ [][NextGaps]_vars

----------------------------------------------------------------------------
(* Properties of analyze_candidate *)

Analysed == call.made /\ result.kind = "returned"

Analysis == result.value

CallMatched == Get(call.match_scores, "matched_skills", <<>>)

CallExperience == Get(call.candidate_data, "experience", <<>>)

CallProjects == Get(call.candidate_data, "projects", <<>>)

AtLeast(score, threshold) == RealGE(score, threshold.num, threshold.den)

Exactly(score, threshold) ==
    /\ RealGE(score, threshold.num, threshold.den)
    /\ RealLE(score, threshold.num, threshold.den)

HighConfidence == AtLeast(Analysis.confidence_score, confidence_threshold_high)

MediumConfidence ==
    /\ AtLeast(Analysis.confidence_score, confidence_threshold_low)
    /\ ~AtLeast(Analysis.confidence_score, confidence_threshold_high)

LowConfidence == ~AtLeast(Analysis.confidence_score, confidence_threshold_low)

\* C1: whenever the computed confidence score is at least 0.75, the decision
\* is AUTO_SHORTLIST, whatever critical_gaps and the base score are.
C1_HighShortlists ==
    Analysed /\ HighConfidence => Analysis.decision = AUTO_SHORTLIST

C1_Witness ==
    /\ Analysed
    /\ HighConfidence
    /\ Analysis.critical_gaps # <<>>
    /\ Analysis.base_score < 40
    /\ Analysis.decision = AUTO_SHORTLIST

\* C2: at MEDIUM confidence (0.40 <= confidence < 0.75) the decision is
\* ASK_QUESTIONS when critical_gaps is non-empty, otherwise AUTO_SHORTLIST
\* when the base score is at least 60 and ASK_QUESTIONS below 60; it is
\* never AUTO_REJECT.
C2_MediumDecision ==
    Analysed /\ MediumConfidence =>
        /\ Analysis.decision # AUTO_REJECT
        /\ Analysis.decision =
               IF Analysis.critical_gaps # <<>> THEN ASK_QUESTIONS
               ELSE IF Analysis.base_score >= 60 THEN AUTO_SHORTLIST
               ELSE ASK_QUESTIONS

C2_Witness ==
    /\ Analysed
    /\ MediumConfidence
    /\ Analysis.critical_gaps = <<>>
    /\ Analysis.base_score = 60
    /\ Analysis.decision = AUTO_SHORTLIST

\* C3: at LOW confidence (confidence < 0.40) the decision is ASK_QUESTIONS
\* exactly when critical_gaps has at most 2 entries and the base score is at
\* least 40, and AUTO_REJECT in every other LOW case; AUTO_REJECT is returned
\* only at LOW confidence.
C3_LowDecision ==
    Analysed =>
        /\ LowConfidence =>
               Analysis.decision =
                   IF Len(Analysis.critical_gaps) <= 2 /\ Analysis.base_score >= 40
                   THEN ASK_QUESTIONS
                   ELSE AUTO_REJECT
        /\ Analysis.decision = AUTO_REJECT => LowConfidence

C3_Witness ==
    /\ Analysed
    /\ LowConfidence
    /\ Len(Analysis.critical_gaps) = 2
    /\ Analysis.base_score = 40
    /\ Analysis.decision = ASK_QUESTIONS

\* C4: the confidence level is HIGH iff confidence >= 0.75, MEDIUM iff
\* 0.40 <= confidence < 0.75 and LOW iff confidence < 0.40; both thresholds
\* are lower-inclusive and the three levels partition all confidence values.
C4_LevelPartition ==
    Analysed =>
        /\ Analysis.confidence_level \in {HIGH, MEDIUM, LOW}
        /\ Analysis.confidence_level = HIGH <=> HighConfidence
        /\ Analysis.confidence_level = MEDIUM <=> MediumConfidence
        /\ Analysis.confidence_level = LOW <=> LowConfidence
        /\ Exactly(Analysis.confidence_score, confidence_threshold_high)
               => Analysis.confidence_level = HIGH
        /\ Exactly(Analysis.confidence_score, confidence_threshold_low)
               => Analysis.confidence_level = MEDIUM

C4_Witness ==
    /\ Analysed
    /\ Exactly(Analysis.confidence_score, confidence_threshold_low)
    /\ Analysis.confidence_level = MEDIUM

\* every critical skill of the job is found among the matched skills
AllCriticalMatched ==
    \A i \in 1..Len(brain.critical_skills) :
        \E k \in 1..Len(CallMatched) :
            IsSubstr(Lower(brain.critical_skills[i]), Lower(CallMatched[k]))

\* no matched skill is a critical skill of the job
NoCriticalMatched ==
    \A i \in 1..Len(brain.critical_skills) :
        \A k \in 1..Len(CallMatched) :
            ~IsSubstr(Lower(brain.critical_skills[i]), Lower(CallMatched[k]))

SectionsComplete ==
    \A field \in {"experience", "skills", "education"} :
        /\ HasKey(call.candidate_data, field)
        /\ Len(call.candidate_data[field]) > 0

StrongCandidate ==
    /\ Analysed
    /\ AllCriticalMatched
    /\ SectionsComplete
    /\ Analysis.base_score >= 75

BlankCandidate ==
    /\ Analysed
    /\ Len(CallExperience) = 0
    /\ Len(CallProjects) = 0
    /\ NoCriticalMatched

\* C6 as stated: a candidate with zero experience entries, zero projects and
\* zero matched critical skills is always AUTO_REJECTed.
C6_Original == BlankCandidate => Analysis.decision = AUTO_REJECT

\* C6 amended: for a candidate with zero experience entries, zero projects
\* and zero matched critical skills the confidence stays below 0.75,
\* critical_gaps contains work_experience and the decision is never
\* AUTO_SHORTLIST: it is AUTO_REJECT exactly when the confidence is LOW and
\* there are more than 2 critical gaps or the overall score is below 40,
\* and ASK_QUESTIONS otherwise.
C6_BlankCandidate ==
    BlankCandidate =>
        /\ Analysis.confidence_level # HIGH
        /\ <<"work_experience">> \in Range(Analysis.critical_gaps)
        /\ Analysis.decision # AUTO_SHORTLIST
        /\ Analysis.decision = AUTO_REJECT <=>
               /\ Analysis.confidence_level = LOW
               /\ Len(Analysis.critical_gaps) > 2 \/ Analysis.base_score < 40

C6_Witness ==
    /\ BlankCandidate
    /\ brain.critical_skills # <<>>
    /\ Analysis.base_score < 40
    /\ Analysis.confidence_level = MEDIUM
    /\ Analysis.decision = ASK_QUESTIONS

\* C7 as stated: a non-empty critical_gaps list blocks auto-shortlisting.
C7_Original ==
    Analysed /\ Analysis.critical_gaps # <<>> => Analysis.decision # AUTO_SHORTLIST

\* C7 amended: a non-empty critical_gaps list blocks auto-shortlisting at
\* MEDIUM and LOW confidence; at HIGH confidence the decision is
\* AUTO_SHORTLIST whether or not there are critical gaps.
C7_GapsBlockBelowHigh ==
    Analysed /\ Analysis.critical_gaps # <<>> =>
        /\ Analysis.confidence_level # HIGH => Analysis.decision # AUTO_SHORTLIST
        /\ Analysis.confidence_level = HIGH => Analysis.decision = AUTO_SHORTLIST

C7_Witness ==
    /\ Analysed
    /\ Analysis.critical_gaps # <<>>
    /\ Analysis.confidence_level = MEDIUM
    /\ Analysis.base_score >= 60
    /\ Analysis.decision = ASK_QUESTIONS

\* C8: two calls with identical job data, candidate record and match scores
\* return identical CandidateAnalysis values, whether made on one AgentBrain
\* or on two AgentBrain instances built from the same job data.
C8_Deterministic ==
    /\ earlier.kept
    /\ call.made
    /\ earlier.job_data = brain.job_data
    /\ earlier.call = call
    => result = earlier.result

\* C9: the confidence_score of every CandidateAnalysis lies in [0,1].
C9_ConfidenceRange ==
    Analysed =>
        /\ RealGE(Analysis.confidence_score, 0, 1)
        /\ RealLE(Analysis.confidence_score, 1, 1)

\* the coverage factor alone is 3.0 and lifts the mean of the factors above 1
C9_Witness ==
    /\ Analysed
    /\ Len(brain.critical_skills) = 1
    /\ Len(CallMatched) = 2
    /\ AllCriticalMatched
    /\ SectionsComplete
    /\ Analysis.confidence_score = RealOne

HasMandatoryScores ==
    \A key \in {"overall_score", "skills_score", "experience_score"} :
        HasKey(call.match_scores, key)

\* C10: analyze_candidate never raises, whichever of the candidate's fields
\* (contact, name, email, experience, skills, education, projects) are
\* absent: it returns a CandidateAnalysis with name "Unknown" and an empty
\* e-mail standing for the absent contact fields.
C10_NeverRaises ==
    call.made /\ HasMandatoryScores =>
        /\ result.kind = "returned"
        /\ ~HasKey(Get(call.candidate_data, "contact", EmptyDict), "name")
               => Analysis.candidate_name = <<"Unknown">>
        /\ ~HasKey(Get(call.candidate_data, "contact", EmptyDict), "email")
               => Analysis.candidate_email = <<>>

\* the entries a reasoning line names: its text cut at every separator
RECURSIVE Split(_, _)
Split(s, sep) ==
    IF \A i \in 1..Len(s) : s[i] # sep THEN <<s>>
    ELSE LET i == CHOOSE k \in 1..Len(s) :
                      s[k] = sep /\ \A j \in 1..(k - 1) : s[j] # sep
         IN  <<SubSeq(s, 1, i - 1)>> \o Split(SubSeq(s, i + 1, Len(s)), sep)

FirstThree(list) ==
    IF Len(list) <= 3 THEN list ELSE <<list[1], list[2], list[3]>>

\* the lines of the reasoning list that open with the given heading
ReasoningLines(heading) ==
    SelectSeq(Analysis.reasoning, LAMBDA line : Head(line) = heading)

NamedIn(heading) == Split(Tail(ReasoningLines(heading)[1]), ", ")

\* C11: the reasoning list names at most 3 missing-info notes and at most 3
\* critical-gap labels, namely the first 3 entries of missing_info and of
\* critical_gaps in order, however many entries the two lists hold; a list
\* without entries gets no line.
C11_ReasoningFirstThree ==
    Analysed =>
        /\ Len(ReasoningLines("Missing information: ")) =
               IF Analysis.missing_info = <<>> THEN 0 ELSE 1
        /\ Len(ReasoningLines("Critical gaps: ")) =
               IF Analysis.critical_gaps = <<>> THEN 0 ELSE 1
        /\ Analysis.missing_info # <<>> =>
               /\ Len(NamedIn("Missing information: ")) <= 3
               /\ NamedIn("Missing information: ") = FirstThree(Analysis.missing_info)
        /\ Analysis.critical_gaps # <<>> =>
               /\ Len(NamedIn("Critical gaps: ")) <= 3
               /\ NamedIn("Critical gaps: ") = FirstThree(Analysis.critical_gaps)

\* four notes and four gaps, of which the reasoning names three each
C11_Witness ==
    /\ Analysed
    /\ Len(Analysis.missing_info) = 4
    /\ Len(Analysis.critical_gaps) = 4
    /\ Len(NamedIn("Missing information: ")) = 3
    /\ Len(NamedIn("Critical gaps: ")) = 3
    /\ Analysis.critical_gaps[4] \notin Range(NamedIn("Critical gaps: "))

\* the call of the worked example
ExampleCall ==
    /\ call.made
    /\ brain.job_data = ExampleJob
    /\ call.candidate_data \in ExampleCandidates
    /\ call.match_scores = ExampleScores

\* C12: for the example input (job requiring Python, FastAPI, Docker with
\* must-have Python, FastAPI; one experience entry with a 90-character
\* description, skills present, no projects; scores 65/60/70/65; matched
\* skills Python, Flask) analyze_candidate returns critical_gaps containing
\* FastAPI and Docker and not Python, missing_info containing "No evidence of
\* FastAPI" and "No evidence of Docker", level MEDIUM or LOW and decision
\* ASK_QUESTIONS.
C12_Example ==
    ExampleCall =>
        /\ result.kind = "returned"
        /\ FastAPI \in Range(Analysis.critical_gaps)
        /\ Docker \in Range(Analysis.critical_gaps)
        /\ Python \notin Range(Analysis.critical_gaps)
        /\ (<<"No evidence of ">> \o FastAPI) \in Range(Analysis.missing_info)
        /\ (<<"No evidence of ">> \o Docker) \in Range(Analysis.missing_info)
        /\ Analysis.confidence_level \in {MEDIUM, LOW}
        /\ Analysis.decision = ASK_QUESTIONS

C12_Witness ==
    /\ ExampleCall
    /\ Analysed
    /\ call.candidate_data = ExampleCandidate(90)
    /\ Len(Analysis.critical_gaps) = 2
    /\ Analysis.confidence_level = MEDIUM
    /\ Analysis.decision = ASK_QUESTIONS

----------------------------------------------------------------------------
(* generate_question.py: QuestionGenerator and AnswerEvaluator             *)
(*                                                                         *)
(* The text of a chat completion is a sequence of lexical tokens: the code *)
(* fence, the language tag, white space, the JSON punctuation, JSON string *)
(* literals (a token stands for the literal, its value is the token        *)
(* without the quotes), number literals, the JSON words, and prose.        *)
(* Python values read from JSON or built by the code are tagged records.   *)

PyNone == [type |-> "NoneType"]

PyStr(s) == [type |-> "str", s |-> s]

PyBool(b) == [type |-> "bool", b |-> b]

\* a float, in hundredths
PyNumber(h) == [type |-> "number", hundredths |-> h]

PyList(items) == [type |-> "list", items |-> items]

PyDict(entries) == [type |-> "dict", entries |-> entries]

\* the token of a code fence: three backquotes
Fence == "<fence>"

JsonTag == "json"

Whitespace == {"\n", " "}

\* the string literals, quotes included, and the strings they denote
StringValues ==
    ("\"question\"" :> "question")
        @@ ("\"gap_addressed\"" :> "gap_addressed")
        @@ ("\"priority\"" :> "priority")
        @@ ("\"high\"" :> "high")
        @@ ("\"medium\"" :> "medium")
        @@ ("\"Which project used Docker?\"" :> "Which project used Docker?")
        @@ ("\"Docker\"" :> "Docker")
        @@ ("\"satisfactory\"" :> "satisfactory")
        @@ ("\"confidence_boost\"" :> "confidence_boost")
        @@ ("\"reasoning\"" :> "reasoning")
        @@ ("\"follow_up_needed\"" :> "follow_up_needed")
        @@ ("\"Specific example given\"" :> "Specific example given")

StringLiterals == DOMAIN StringValues

\* the literal that denotes a string
Lit(v) == CHOOSE tok \in StringLiterals : StringValues[tok] = v

\* the number literals and their values in hundredths
NumberLiterals == {"0.15", "0.3", "0.9", "-0.2", "-0.5"}

NumberValue(tok) ==
    CASE tok = "0.15" -> 15
      [] tok = "0.3" -> 30
      [] tok = "0.9" -> 90
      [] tok = "-0.2" -> -20
      [] tok = "-0.5" -> -50

RECURSIVE LStrip(_)
LStrip(s) == IF s # <<>> /\ Head(s) \in Whitespace THEN LStrip(Tail(s)) ELSE s

RECURSIVE RStrip(_)
RStrip(s) ==
    IF s # <<>> /\ s[Len(s)] \in Whitespace THEN RStrip(SubSeq(s, 1, Len(s) - 1)) ELSE s

\* str.strip()
Strip(s) == RStrip(LStrip(s))

\* index of the first occurrence of sep in s, 0 when there is none
FindFirst(s, sep) ==
    LET At(i) == SubSeq(s, i, i + Len(sep) - 1) = sep
        starts == {i \in 1..(Len(s) - Len(sep) + 1) : At(i)}
    IN  IF starts = {} THEN 0 ELSE CHOOSE i \in starts : \A j \in starts : i <= j

\* str.split(sep)
RECURSIVE str_split(_, _)
str_split(s, sep) ==
    LET i == FindFirst(s, sep)
    IN  IF i = 0 THEN <<s>>
        ELSE <<SubSeq(s, 1, i - 1)>> \o str_split(SubSeq(s, i + Len(sep), Len(s)), sep)

\* json.loads: a recursive-descent reading of the tokens; white space between
\* tokens is skipped, the whole text must be one value
ParseFailed == [ok |-> FALSE]

Parsed(value, next) == [ok |-> TRUE, value |-> value, next |-> next]

RECURSIVE ParseValue(_, _)
RECURSIVE ParseItems(_, _, _)
RECURSIVE ParseMembers(_, _, _)

ParseValue(t, i) ==
    IF i > Len(t) THEN ParseFailed
    ELSE IF t[i] = "["
         THEN IF i + 1 <= Len(t) /\ t[i + 1] = "]"
              THEN Parsed(PyList(<<>>), i + 2)
              ELSE ParseItems(t, i + 1, <<>>)
    ELSE IF t[i] = "{"
         THEN IF i + 1 <= Len(t) /\ t[i + 1] = "}"
              THEN Parsed(PyDict(EmptyDict), i + 2)
              ELSE ParseMembers(t, i + 1, EmptyDict)
    ELSE IF t[i] \in StringLiterals THEN Parsed(PyStr(<<StringValues[t[i]]>>), i + 1)
    ELSE IF t[i] \in NumberLiterals THEN Parsed(PyNumber(NumberValue(t[i])), i + 1)
    ELSE IF t[i] = "true" THEN Parsed(PyBool(TRUE), i + 1)
    ELSE IF t[i] = "false" THEN Parsed(PyBool(FALSE), i + 1)
    ELSE IF t[i] = "null" THEN Parsed(PyNone, i + 1)
    ELSE ParseFailed

ParseItems(t, i, acc) ==
    LET v == ParseValue(t, i)
    IN  IF ~v.ok \/ v.next > Len(t) THEN ParseFailed
        ELSE IF t[v.next] = "," THEN ParseItems(t, v.next + 1, Append(acc, v.value))
        ELSE IF t[v.next] = "]" THEN Parsed(PyList(Append(acc, v.value)), v.next + 1)
        ELSE ParseFailed

\* a later member replaces an earlier one with the same key
ParseMembers(t, i, acc) ==
    IF i + 1 > Len(t) \/ t[i] \notin StringLiterals \/ t[i + 1] # ":" THEN ParseFailed
    ELSE LET v == ParseValue(t, i + 2)
         IN  IF ~v.ok \/ v.next > Len(t) THEN ParseFailed
             ELSE IF t[v.next] = ","
                  THEN ParseMembers(t, v.next + 1, (StringValues[t[i]] :> v.value) @@ acc)
             ELSE IF t[v.next] = "}"
                  THEN Parsed(PyDict((StringValues[t[i]] :> v.value) @@ acc), v.next + 1)
             ELSE ParseFailed

json_loads(text) ==
    LET t == SelectSeq(text, LAMBDA tok : tok \notin Whitespace)
        v == ParseValue(t, 1)
    IN  IF v.ok /\ v.next = Len(t) + 1
        THEN Returned(v.value)
        ELSE Raised("JSONDecodeError", "")

\* the text between the first fence (with its tag) and the fence after it
Fenced(text, opening) == Strip(str_split(str_split(text, opening)[2], <<Fence>>)[1])

\* the fallback of _parse_questions: the whole response as one question
SingleQuestion(response_text) ==
    PyList(<< PyDict(("question" :> PyStr(Strip(response_text)))
                  @@ ("gap_addressed" :> PyStr(<<"general">>))
                  @@ ("priority" :> PyStr(<<"medium">>))) >>)

\* on a failure its handler raises again: the mutant of _parse_questions
_parse_questions_Raising(content) ==
    IF content.type # "str" THEN Raised("AttributeError", "strip")
    ELSE
    LET response_text == content.s
        json_str ==
            IF IsSubstr(<<Fence, JsonTag>>, response_text)
            THEN Fenced(response_text, <<Fence, JsonTag>>)
            ELSE IF IsSubstr(<<Fence>>, response_text)
                 THEN Fenced(response_text, <<Fence>>)
                 ELSE Strip(response_text)
        questions == json_loads(json_str)
    IN  IF questions.kind = "returned" /\ questions.value.type = "list"
        THEN questions
        ELSE Raised("ValueError", "")

\* content is the message content: a str, or None.  With None the search for
\* the fence in response_text raises TypeError, and the handler's
\* response_text.strip() raises AttributeError out of the method.
_parse_questions(content) ==
    IF content.type # "str" THEN Raised("AttributeError", "strip")
    ELSE
    LET response_text == content.s
        json_str ==
            IF IsSubstr(<<Fence, JsonTag>>, response_text)
            THEN Fenced(response_text, <<Fence, JsonTag>>)
            ELSE IF IsSubstr(<<Fence>>, response_text)
                 THEN Fenced(response_text, <<Fence>>)
                 ELSE Strip(response_text)
        questions == json_loads(json_str)
    IN  IF questions.kind = "returned" /\ questions.value.type = "list"
        THEN questions
        ELSE Returned(SingleQuestion(response_text))

WorkExperienceQuestion ==
    <<"Could you provide details about your work experience? Include company names, roles, duration, and key responsibilities.">>

ProjectsQuestion ==
    <<"Could you describe 1-2 relevant projects you've worked on? Include technologies used and your specific contributions.">>

SkillQuestion(gap) ==
    <<"The job requires ">> \o gap \o <<". Do you have experience with ">> \o gap
        \o <<"? If yes, please describe one project where you used it.">>

TemplateQuestion(gap) ==
    IF gap = <<"work_experience">>
    THEN PyDict(("question" :> PyStr(WorkExperienceQuestion))
                @@ ("gap_addressed" :> PyStr(<<"work_experience">>))
                @@ ("priority" :> PyStr(<<"high">>)))
    ELSE IF gap = <<"projects">>
    THEN PyDict(("question" :> PyStr(ProjectsQuestion))
                @@ ("gap_addressed" :> PyStr(<<"projects">>))
                @@ ("priority" :> PyStr(<<"high">>)))
    ELSE PyDict(("question" :> PyStr(SkillQuestion(gap)))
                @@ ("gap_addressed" :> PyStr(gap))
                @@ ("priority" :> PyStr(<<"high">>)))

_generate_template_questions_NoLimit(critical_gaps, missing_info) ==
    PyList([i \in 1..Len(critical_gaps) |-> TemplateQuestion(critical_gaps[i])])

_generate_template_questions(critical_gaps, missing_info) ==
    LET gaps == Prefix(critical_gaps, 3)
    IN  PyList([i \in 1..Len(gaps) |-> TemplateQuestion(gaps[i])])

RECURSIVE Flatten(_)
Flatten(lists) == IF lists = <<>> THEN <<>> ELSE Head(lists) \o Flatten(Tail(lists))

\* the values the prompt is written from; candidate_data['skills'] is a dict
\* of lists, here the sequence of its (category, list) items
_build_question_prompt(job_data, candidate_data, critical_gaps, missing_info, confidence_score) ==
    LET skills == Get(candidate_data, "skills", <<>>)
        all_skills == Flatten([i \in 1..Len(skills) |-> skills[i][2]])
    IN  [title |-> Get(job_data, "title", <<"a position">>),
         required_skills |-> Prefix(Get(job_data, "required_skills", <<>>), 10),
         min_experience |-> Get(job_data, "min_experience", 0),
         skills_mentioned |-> Prefix(all_skills, 10),
         positions |-> Len(Get(candidate_data, "experience", <<>>)),
         projects |-> Len(Get(candidate_data, "projects", <<>>)),
         critical_gaps |-> Join(critical_gaps, ", "),
         missing_information |-> Join(missing_info, ", "),
         confidence |-> confidence_score]

\* the outcomes of client.chat.completions.create and of reading its message
APIError == [kind |-> "raised"]

NoChoices == [kind |-> "no_choices"]

Content(content) == [kind |-> "content", content |-> content]

generate_questions(job_data, candidate_data, critical_gaps, missing_info, confidence_score, completion) ==
    LET questions == _parse_questions(completion.content)
    IN  IF completion.kind = "content" /\ questions.kind = "returned"
        THEN questions
        ELSE Returned(_generate_template_questions(critical_gaps, missing_info))

EvaluationFallback ==
    PyDict(("satisfactory" :> PyBool(FALSE))
           @@ ("confidence_boost" :> PyNumber(0))
           @@ ("reasoning" :> PyStr(<<"Could not evaluate answer properly">>))
           @@ ("follow_up_needed" :> PyBool(TRUE)))

evaluate_answer(question, answer, gap_addressed, job_data, completion) ==
    IF completion.kind # "content" \/ completion.content.type # "str"
    THEN Returned(EvaluationFallback)
    ELSE
    LET result_text == completion.content.s
        json_str ==
            IF IsSubstr(<<Fence, JsonTag>>, result_text)
            THEN Fenced(result_text, <<Fence, JsonTag>>)
            ELSE Strip(result_text)
        parsed == json_loads(json_str)
    IN  IF parsed.kind = "returned" THEN parsed ELSE Returned(EvaluationFallback)

(* Inputs of the question generator and of the answer evaluator *)

PostgreSQL == <<"PostgreSQL">>

MySQL == <<"MySQL">>

QuestionJob ==
    ("title" :> <<"Backend Developer">>)
        @@ ("required_skills" :> <<Python, FastAPI, Docker, PostgreSQL>>)
        @@ ("min_experience" :> 3)

QuestionCandidate ==
    ("skills" :> << <<"programming", <<Python, Flask>> >>, <<"databases", <<MySQL>> >> >>)
        @@ ("experience" :> << "description" :> 25 >>)
        @@ ("projects" :> <<>>)

GapNames == {<<"work_experience">>, <<"projects">>, Docker}

CriticalGapLists == SeqsUpTo(GapNames, MaxGaps)

MissingInfoLists ==
    {<<>>, << <<"No FastAPI experience">>, <<"No container experience">> >>}

\* the confidence passed to the generator, in hundredths
QuestionConfidences == {55}

QuestionObject ==
    <<"{", Lit("question"), ":", Lit("Which project used Docker?"), ",",
      Lit("gap_addressed"), ":", Lit("Docker"), ",", Lit("priority"), ":", Lit("high"), "}">>

\* JSON arrays of question objects
QuestionListPayloads ==
    {<<"[", "]">>,
     <<"[">> \o QuestionObject \o <<"]">>,
     <<"[", "\n">> \o QuestionObject \o <<",", "\n">> \o QuestionObject \o <<"\n", "]">>}

\* JSON arrays of other values
OtherListPayloads == {<<"[", "0.15", "]">>, <<"[", Lit("high"), ",", "null", "]">>}

EvaluationObject(satisfactory, boost, follow_up) ==
    <<"{", "\n", Lit("satisfactory"), ":", satisfactory, ",", "\n",
      Lit("confidence_boost"), ":", boost, ",", "\n",
      Lit("reasoning"), ":", Lit("Specific example given"), ",", "\n",
      Lit("follow_up_needed"), ":", follow_up, "\n", "}">>

\* JSON objects
ObjectPayloads ==
    {EvaluationObject("true", b, "false") : b \in NumberLiterals}
        \cup {EvaluationObject("false", "-0.2", "true"),
              EvaluationObject(Lit("high"), "true", "null"),
              <<"{", "}">>,
              <<"{", Lit("satisfactory"), ":", "true", "}">>,
              QuestionObject}

\* JSON scalars
ScalarPayloads == {<<"0.9">>, <<"null">>, <<"true">>, <<Lit("high")>>}

JsonPayloads ==
    QuestionListPayloads \cup OtherListPayloads \cup ObjectPayloads \cup ScalarPayloads

\* texts that are not JSON
BrokenPayloads ==
    {<<>>,
     <<"Sorry, I cannot help with that.">>,
     <<"[">> \o QuestionObject,
     <<"[">> \o QuestionObject \o <<",", "]">>,
     <<"{", Lit("satisfactory"), ":", "yes", "}">>,
     <<"{", Lit("satisfactory"), "true", "}">>}

Payloads == JsonPayloads \cup BrokenPayloads

FenceWrappings == {"tagged", "untagged"}

Wrappings == {"plain", "padded", "prose", "unclosed"} \cup FenceWrappings

\* a payload as the model sends it: bare, or inside a code fence
Wrap(w, payload) ==
    CASE w = "plain" -> payload
      [] w = "padded" -> <<"\n">> \o payload \o <<"\n", " ">>
      [] w = "tagged" -> <<Fence, JsonTag, "\n">> \o payload \o <<"\n", Fence>>
      [] w = "untagged" -> <<Fence, "\n">> \o payload \o <<"\n", Fence>>
      [] w = "prose" ->
            <<"Here is the result:", "\n", Fence, JsonTag, "\n">> \o payload
                \o <<"\n", Fence, "\n", "Let me know if you need more.">>
      [] w = "unclosed" -> <<Fence, JsonTag, "\n">> \o payload

ResponseTexts == {Wrap(w, payload) : w \in Wrappings, payload \in Payloads}

Completions ==
    {APIError, NoChoices, Content(PyNone)}
        \cup {Content(PyStr(text)) : text \in ResponseTexts}

EvaluatedQuestions == {SkillQuestion(Docker)}

Answers == {<<"I used Docker in two projects.">>, <<"I don't know">>}

(* The callers of the generator and of the evaluator *)

\* questions = generator.generate_questions(job_data, candidate_data,
\*                                          critical_gaps, missing_info, 0.55)
GenerateQuestions(job_data, candidate_data, critical_gaps, missing_info, confidence_score, completion) ==
    /\ ~call.made
    /\ call' = [made |-> TRUE, method |-> "generate_questions",
                critical_gaps |-> critical_gaps, missing_info |-> missing_info,
                prompt |-> _build_question_prompt(job_data, candidate_data,
                                                  critical_gaps, missing_info,
                                                  confidence_score),
                completion |-> completion]
    /\ result' = generate_questions(job_data, candidate_data, critical_gaps,
                                    missing_info, confidence_score, completion)
    /\ UNCHANGED <<hashSeed, brain, earlier, authVars, dbVars>>

\* evaluation = evaluator.evaluate_answer(question, answer, gap_addressed, job_data)
EvaluateAnswer(question, answer, gap_addressed, job_data, completion) ==
    /\ ~call.made
    /\ call' = [made |-> TRUE, method |-> "evaluate_answer",
                question |-> question, answer |-> answer,
                gap_addressed |-> gap_addressed, job_data |-> job_data,
                completion |-> completion]
    /\ result' = evaluate_answer(question, answer, gap_addressed, job_data, completion)
    /\ UNCHANGED <<hashSeed, brain, earlier, authVars, dbVars>>

InitQuestions == InitOver({QuestionJob}) /\ hashSeed = 0

NextQuestions ==
    \/ /\ ~call.made
       /\ \E critical_gaps \in CriticalGapLists, missing_info \in MissingInfoLists,
             confidence_score \in QuestionConfidences, completion \in Completions :
              GenerateQuestions(QuestionJob, QuestionCandidate, critical_gaps,
                                missing_info, confidence_score, completion)
    \/ /\ ~call.made
       /\ \E question \in EvaluatedQuestions, answer \in Answers,
             completion \in Completions :
              EvaluateAnswer(question, answer, Docker, QuestionJob, completion)
    \/ Finish

SpecQuestions == InitQuestions /\ [][NextQuestions]_vars

----------------------------------------------------------------------------
(* Properties of generate_questions and evaluate_answer *)

QuestionsCall == call.made /\ call.method = "generate_questions"

EvaluationCall == call.made /\ call.method = "evaluate_answer"

\* the request to the external model failed, or its answer holds no message
CallFailed == call.completion.kind # "content"

HasText == call.completion.kind = "content" /\ call.completion.content.type = "str"

ResponseText == call.completion.content.s

\* the response is one of the given payloads, bare or in any wrapping
Carries(payloads) ==
    HasText /\ \E w \in Wrappings, payload \in payloads : ResponseText = Wrap(w, payload)

TemplateOfCall ==
    _generate_template_questions(call.critical_gaps, call.missing_info)

ExpectedWording(gap) ==
    IF gap = <<"work_experience">> THEN WorkExperienceQuestion
    ELSE IF gap = <<"projects">> THEN ProjectsQuestion
    ELSE <<"The job requires ">> \o gap \o <<". Do you have experience with ">> \o gap
             \o <<"? If yes, please describe one project where you used it.">>

\* C14: the template fallback returns exactly min(3, number of critical gaps)
\* questions, one per gap for the first 3 critical gaps in order, each with
\* priority "high", gap_addressed equal to its gap and the wording of its
\* kind (work experience, projects, or the skill wording naming the gap);
\* missing_info has no effect and an empty critical_gaps gives an empty list.
C14_TemplateQuestions ==
    QuestionsCall /\ CallFailed =>
        /\ result.kind = "returned"
        /\ result.value.type = "list"
        /\ Len(result.value.items) = Min(3, Len(call.critical_gaps))
        /\ \A i \in 1..Len(result.value.items) :
               LET q == result.value.items[i]
                   gap == call.critical_gaps[i]
               IN  /\ q.type = "dict"
                   /\ DOMAIN q.entries = {"question", "gap_addressed", "priority"}
                   /\ q.entries["priority"] = PyStr(<<"high">>)
                   /\ q.entries["gap_addressed"] = PyStr(gap)
                   /\ q.entries["question"] = PyStr(ExpectedWording(gap))
        /\ call.critical_gaps = <<>> => result.value = PyList(<<>>)

\* four gaps of the three kinds and a non-empty missing_info: three questions
C14_Witness ==
    /\ QuestionsCall
    /\ CallFailed
    /\ call.critical_gaps = <<Docker, <<"work_experience">>, <<"projects">>, Docker>>
    /\ call.missing_info # <<>>
    /\ Len(result.value.items) = 3

\* C15: whenever the external call fails or the response cannot be parsed as
\* a JSON object, evaluate_answer returns the neutral fallback (satisfactory
\* false, confidence_boost 0.0, follow_up_needed true) and does not raise.
C15_FallbackOnFailure ==
    EvaluationCall /\ (CallFailed \/ ~HasText \/ Carries(Payloads \ ObjectPayloads)) =>
        /\ result.kind = "returned"
        /\ result.value.type = "dict"
        /\ result.value.entries["satisfactory"] = PyBool(FALSE)
        /\ result.value.entries["confidence_boost"] = PyNumber(0)
        /\ result.value.entries["follow_up_needed"] = PyBool(TRUE)

\* C16: every value evaluate_answer returns has the four fields satisfactory,
\* confidence_boost, reasoning and follow_up_needed, with confidence_boost in
\* [-0.2, 0.3], whatever JSON the external model returns.
C16_FourFieldsBoostRange ==
    EvaluationCall /\ result.kind = "returned" =>
        /\ result.value.type = "dict"
        /\ {"satisfactory", "confidence_boost", "reasoning", "follow_up_needed"}
               \subseteq DOMAIN result.value.entries
        /\ result.value.entries["confidence_boost"].type = "number"
        /\ result.value.entries["confidence_boost"].hundredths >= -20
        /\ result.value.entries["confidence_boost"].hundredths <= 30

\* the result of the call in progress, had the payload been sent bare
ResultUnwrapped(payload) ==
    IF call.method = "generate_questions"
    THEN generate_questions(QuestionJob, QuestionCandidate, call.critical_gaps,
                            call.missing_info, 0, Content(PyStr(payload)))
    ELSE evaluate_answer(call.question, call.answer, call.gap_addressed,
                         call.job_data, Content(PyStr(payload)))

\* C17: both parsers tolerate code fences: a valid JSON payload (a list for
\* the question parser, an object for the evaluation parser) wrapped in a
\* code fence, with or without the json tag, is parsed to the same result as
\* the same payload sent unwrapped.
C17_FenceTolerant ==
    call.made /\ HasText =>
        \A w \in FenceWrappings :
            \A payload \in (IF call.method = "generate_questions"
                            THEN QuestionListPayloads ELSE ObjectPayloads) :
                ResponseText = Wrap(w, payload) => result = ResultUnwrapped(payload)

----------------------------------------------------------------------------
(* admin_approval_auth.py: sign-up pending approval, sign-in of approved    *)
(* users from approved devices.  The users and activity_logs tables live in *)
(* the hosted database; each execute() of a request may raise.  Messages    *)
(* are sequences of text chunks, their pictographs left out.                *)

Lowercase ==
    {"a", "b", "c", "d", "e", "f", "g", "h", "i", "j", "k", "l", "m",
     "n", "o", "p", "q", "r", "s", "t", "u", "v", "w", "x", "y", "z"}

Uppercase ==
    {"A", "B", "C", "D", "E", "F", "G", "H", "I", "J", "K", "L", "M",
     "N", "O", "P", "Q", "R", "S", "T", "U", "V", "W", "X", "Y", "Z"}

Digits == {"0", "1", "2", "3", "4", "5", "6", "7", "8", "9"}

\* c.isalpha() and c.isdigit(), on ASCII text
isalpha(c) == c \in Lowercase \cup Uppercase

isdigit(c) == c \in Digits

\* [a-zA-Z0-9._%+-]
LocalChars == Lowercase \cup Uppercase \cup Digits \cup {".", "_", "%", "+", "-"}

\* [a-zA-Z0-9.-]
DomainChars == Lowercase \cup Uppercase \cup Digits \cup {".", "-"}

\* the whole of s is  local+ @ domain+ . letter{2,}
MatchesPattern(s) ==
    \E at \in 2..Len(s), dot \in 4..Len(s) :
        /\ at + 1 < dot
        /\ dot + 2 <= Len(s)
        /\ s[at] = "@"
        /\ s[dot] = "."
        /\ \A i \in 1..(at - 1) : s[i] \in LocalChars
        /\ \A i \in (at + 1)..(dot - 1) : s[i] \in DomainChars
        /\ \A i \in (dot + 1)..Len(s) : isalpha(s[i])

\* re.match(pattern, email) is not None; $ also matches before a last newline
_validate_email(email) ==
    \/ MatchesPattern(email)
    \/ /\ email # <<>>
       /\ email[Len(email)] = "\n"
       /\ MatchesPattern(SubSeq(email, 1, Len(email) - 1))

_validate_password(password) ==
    /\ Len(password) >= 8
    /\ \E i \in 1..Len(password) : isalpha(password[i])
    /\ \E i \in 1..Len(password) : isdigit(password[i])

\* hashlib.sha256(password.encode()).hexdigest(): one digest per password
sha256(password) == [sha256 |-> password]

\* datetime.now().isoformat()
Now == PyStr(<<"now">>)

SupabaseClient == [type |-> "Client"]

\* get_secret("ADMIN_EMAIL", "admin@example.com")
admin_email ==
    <<"a", "d", "m", "i", "n", "@", "e", "x", "a", "m", "p", "l", "e", ".", "c", "o", "m">>

\* the (success, message) pair a method returns
Success(message) == [success |-> TRUE, message |-> message]

Failure(message) == [success |-> FALSE, message |-> message]

\* str(e) of the exception a failed request raises
RequestError == <<"request failed">>

\* current_device[:8]
FirstEight(s) == SubSeq(s, 1, Min(8, Len(s)))

\* self.client.table('activity_logs').insert({...}).execute()
ActivityLog(action_type, user_email, user_name, device_id, message) ==
    [action_type |-> action_type,
     details |-> [user_email |-> user_email, user_name |-> user_name,
                  device_id |-> device_id, timestamp |-> Now, message |-> message],
     created_at |-> Now]

\* the activity_logs table after the call; a failed insert is printed and dropped
_log_signup_request(session, user_email, user_name, fault) ==
    IF client = NoClient \/ fault = "log" THEN activity_logs
    ELSE Append(activity_logs,
                ActivityLog("signup_request", user_email, user_name,
                            session_state[session].device_id,
                            <<"New signup request from ">> \o user_name \o <<" (">>
                                \o user_email \o <<")">>))

_log_new_device_alert(user_email, user_name, device_id, fault) ==
    IF client = NoClient \/ fault = "log" THEN activity_logs
    ELSE Append(activity_logs,
                ActivityLog("new_device_alert", user_email, user_name, device_id,
                            <<"New device login attempt by ">> \o user_name \o <<" (">>
                                \o user_email \o <<")">>))

\* what a call leaves behind: its return value, the two tables and the
\* session's user
Outcome(ret, users_, activity_logs_, user) ==
    [ret |-> ret, users |-> users_, activity_logs |-> activity_logs_, user |-> user]

\* the call returns without having changed anything
Unchanged(session, ret) ==
    Outcome(ret, users, activity_logs, session_state[session].user)

\* the row the insert of user_data creates, the database giving it its id
NewUser(email, password, full_name) ==
    [id |-> Len(users) + 1,
     email |-> Lower(email),
     password_hash |-> sha256(password),
     full_name |-> Strip(full_name),
     is_approved |-> FALSE,
     approved_at |-> PyNone,
     approved_by |-> PyNone,
     approved_devices |-> <<>>,
     signup_date |-> Now,
     last_login |-> PyNone]

sign_up(session, email, password, full_name, fault) ==
    IF client = NoClient
    THEN Unchanged(session, Failure(<<"Authentication not configured">>))
    ELSE IF full_name = <<>> \/ Strip(full_name) = <<>>
    THEN Unchanged(session, Failure(<<"Please enter your full name">>))
    ELSE IF ~_validate_email(email)
    THEN Unchanged(session, Failure(<<"Invalid email format">>))
    ELSE IF ~_validate_password(password)
    THEN Unchanged(session, Failure(<<"Password must be at least 8 characters with letters and numbers">>))
    ELSE IF fault = "select"
    THEN Unchanged(session, Failure(<<"Signup failed: ">> \o RequestError))
    ELSE IF SelectSeq(users, LAMBDA u : u.email = Lower(email)) # <<>>
    THEN Unchanged(session, Failure(<<"Email already registered. Waiting for admin approval.">>))
    ELSE IF fault = "insert"
    THEN Unchanged(session, Failure(<<"Signup failed: ">> \o RequestError))
    ELSE IF fault = "insert_empty"
    THEN Unchanged(session, Failure(<<"Failed to create account">>))
    ELSE Outcome(Success(<<"Account created for ">> \o full_name
                             \o <<"!\n\n">> \o <<"Your account is pending admin approval.">>
                             \o <<"\n\n">> \o <<"You'll be able to login once approved by the administrator.">>),
                 Append(users, NewUser(email, password, full_name)),
                 _log_signup_request(session, email, full_name, fault),
                 session_state[session].user)

PendingApproval ==
    <<"Your account is pending admin approval.", "\n\n",
      "Please wait for the administrator to approve your access.", "\n\n",
      "Contact admin if you've been waiting for more than 24 hours.">>

NewDevice(current_device) ==
    <<"New device detected!", "\n\n", "This device needs admin approval.", "\n\n",
      "Device ID: ">> \o FirstEight(current_device)
        \o <<"...", "\n\n", "An alert has been logged. Please contact admin for approval.">>

\* st.session_state.user after a login
SessionUser(user) ==
    [id |-> user.id,
     email |-> user.email,
     full_name |-> user.full_name,
     approved_at |-> user.approved_at,
     is_admin |-> user.email = admin_email]

\* self.client.table('users').update({'last_login': now}).eq('id', id).execute()
UpdateLastLogin(id) ==
    [i \in 1..Len(users) |->
        IF users[i].id = id THEN [users[i] EXCEPT !.last_login = Now] ELSE users[i]]

\* sign_in without the check of is_approved
sign_in_NoApprovalCheck(session, email, password, fault) ==
    IF client = NoClient
    THEN Unchanged(session, Failure(<<"Authentication not configured">>))
    ELSE IF fault = "select"
    THEN Unchanged(session, Failure(<<"Login failed: ">> \o RequestError))
    ELSE LET data == SelectSeq(users, LAMBDA u : /\ u.email = Lower(email)
                                                /\ u.password_hash = sha256(password))
             user == data[1]
             current_device == session_state[session].device_id
         IN  IF data = <<>>
             THEN Unchanged(session, Failure(<<"Invalid email or password">>))
             ELSE IF current_device \notin Range(user.approved_devices)
             THEN Outcome(Failure(NewDevice(current_device)),
                          users,
                          _log_new_device_alert(email, user.full_name, current_device, fault),
                          session_state[session].user)
             ELSE IF fault = "update"
             THEN Outcome(Failure(<<"Login failed: ">> \o RequestError),
                          users, activity_logs, SessionUser(user))
             ELSE Outcome(Success(<<"Welcome back, ">> \o user.full_name \o <<"!">>),
                          UpdateLastLogin(user.id), activity_logs, SessionUser(user))

sign_in(session, email, password, fault) ==
    IF client = NoClient
    THEN Unchanged(session, Failure(<<"Authentication not configured">>))
    ELSE IF fault = "select"
    THEN Unchanged(session, Failure(<<"Login failed: ">> \o RequestError))
    ELSE LET data == SelectSeq(users, LAMBDA u : /\ u.email = Lower(email)
                                                /\ u.password_hash = sha256(password))
             user == data[1]
             current_device == session_state[session].device_id
         IN  IF data = <<>>
             THEN Unchanged(session, Failure(<<"Invalid email or password">>))
             ELSE IF ~user.is_approved
             THEN Unchanged(session, Failure(PendingApproval))
             ELSE IF current_device \notin Range(user.approved_devices)
             THEN Outcome(Failure(NewDevice(current_device)),
                          users,
                          _log_new_device_alert(email, user.full_name, current_device, fault),
                          session_state[session].user)
             ELSE IF fault = "update"
             THEN Outcome(Failure(<<"Login failed: ">> \o RequestError),
                          users, activity_logs, SessionUser(user))
             ELSE Outcome(Success(<<"Welcome back, ">> \o user.full_name \o <<"!">>),
                          UpdateLastLogin(user.id), activity_logs, SessionUser(user))

(* Inputs of the sign-up and login forms *)

AnnEmail == <<"a", "@", "b", ".", "c", "o">>

AnnEmailTyped == <<"A", "@", "b", ".", "c", "o">>

DanEmail == <<"d", "@", "b", ".", "c", "o">>

BadEmail == <<"a", "@", "b">>

GoodPassword == <<"p", "a", "s", "s", "w", "0", "r", "d">>

OtherPassword == <<"p", "a", "s", "s", "w", "0", "r", "d", "1">>

WeakPassword == <<"p", "a", "s", "s", "w", "o", "r", "d">>

FullName == <<"A", "n", "n">>

BlankName == <<" ">>

\* the identifiers _generate_device_id gives on two machines
Devices ==
    {<<"0", "c", "c", "1", "7", "5", "b", "9", "c", "0">>,
     <<"9", "2", "e", "b", "5", "f", "f", "e", "e", "6">>}

Sessions == {"session-1"}

\* one form submission: the fields typed and the request that fails, if any
SignUpCalls ==
    {[email |-> e, password |-> GoodPassword, full_name |-> FullName, fault |-> f] :
        e \in {AnnEmail, AnnEmailTyped, DanEmail},
        f \in {"none", "select", "insert", "insert_empty", "log"}}
    \cup {[email |-> BadEmail, password |-> GoodPassword, full_name |-> FullName, fault |-> "none"],
          [email |-> AnnEmail, password |-> WeakPassword, full_name |-> FullName, fault |-> "none"],
          [email |-> AnnEmail, password |-> GoodPassword, full_name |-> BlankName, fault |-> "none"],
          [email |-> AnnEmail, password |-> GoodPassword, full_name |-> <<>>, fault |-> "none"]}

SignInCalls ==
    {[email |-> e, password |-> GoodPassword, fault |-> f] :
        e \in {AnnEmail, AnnEmailTyped, DanEmail},
        f \in {"none", "select", "log", "update"}}
    \cup {[email |-> e, password |-> OtherPassword, fault |-> "none"] :
             e \in {AnnEmail, BadEmail}}

(* The pages calling the authentication object, and the administrator who  *)
(* works on the tables of the hosted database directly                     *)

\* the tables and the session user a call starts from
Before(session) ==
    [users |-> users, activity_logs |-> activity_logs, user |-> session_state[session].user]

\* the call leaves its outcome in the tables and in the session
Leaves(session, outcome) ==
    /\ result' = Returned(outcome.ret)
    /\ users' = outcome.users
    /\ activity_logs' = outcome.activity_logs
    /\ session_state' = [session_state EXCEPT ![session].user = outcome.user]

\* success, message = auth.sign_up(email, password, full_name)
SignUp(session, email, password, full_name, fault) ==
    LET outcome == sign_up(session, email, password, full_name, fault)
    IN  /\ ~call.made
        /\ Len(outcome.users) <= MaxUsers
        /\ Len(outcome.activity_logs) <= MaxLogs
        /\ call' = [made |-> TRUE, method |-> "AdminApprovalAuth.sign_up", session |-> session,
                    email |-> email, password |-> password, full_name |-> full_name,
                    fault |-> fault, before |-> Before(session)]
        /\ Leaves(session, outcome)
        /\ UNCHANGED <<hashSeed, brain, earlier, client, dbVars>>

\* success, message = auth.sign_in(email, password)
SignIn(session, email, password, fault) ==
    LET outcome == sign_in(session, email, password, fault)
    IN  /\ ~call.made
        /\ Len(outcome.activity_logs) <= MaxLogs
        /\ call' = [made |-> TRUE, method |-> "AdminApprovalAuth.sign_in", session |-> session,
                    email |-> email, password |-> password,
                    fault |-> fault, before |-> Before(session)]
        /\ Leaves(session, outcome)
        /\ UNCHANGED <<hashSeed, brain, earlier, client, dbVars>>

\* auth.sign_out()
SignOut(session) ==
    /\ ~call.made
    /\ session_state[session].user # PyNone
    /\ session_state' = [session_state EXCEPT ![session].user = PyNone]
    /\ UNCHANGED <<hashSeed, brain, call, result, earlier, client, users, activity_logs, dbVars>>

\* the administrator approves the account of row i
AdminApprovesUser(i) ==
    /\ ~call.made
    /\ ~users[i].is_approved
    /\ users' = [users EXCEPT ![i].is_approved = TRUE,
                              ![i].approved_at = Now,
                              ![i].approved_by = PyStr(admin_email)]
    /\ UNCHANGED <<hashSeed, brain, call, result, earlier, client, activity_logs, session_state, dbVars>>

\* the administrator confirms a device of the user of row i
AdminApprovesDevice(i, device_id) ==
    /\ ~call.made
    /\ device_id \notin Range(users[i].approved_devices)
    /\ Len(users[i].approved_devices) < MaxDevices
    /\ users' = [users EXCEPT ![i].approved_devices = Append(@, device_id)]
    /\ UNCHANGED <<hashSeed, brain, call, result, earlier, client, activity_logs, session_state, dbVars>>

\* the administrator has read the activity log and empties it
AdminClearsLogs ==
    /\ ~call.made
    /\ activity_logs # <<>>
    /\ activity_logs' = <<>>
    /\ UNCHANGED <<hashSeed, brain, call, result, earlier, client, users, session_state, dbVars>>

\* a wrapper that calls the page whoever asks
require_auth_Unchecked(session) == TRUE

\* the wrapper of require_auth calls the wrapped function: is_authenticated()
require_auth(session) == session_state[session].user # PyNone

\* a page wrapped by require_auth is requested in the session
Page(session) ==
    /\ ~call.made
    /\ call' = [made |-> TRUE, method |-> "page", session |-> session,
                invoked |-> require_auth(session), before |-> Before(session)]
    /\ result' = Returned(PyNone)
    /\ UNCHANGED <<hashSeed, brain, earlier, authVars, dbVars>>

\* AdminApprovalAuth() in a new session: the client as configured, no user,
\* the device id of the machine
InitApproval ==
    /\ InitAgent({QuestionJob})
    /\ hashSeed = 0
    /\ client \in {NoClient, SupabaseClient}
    /\ users = <<>>
    /\ activity_logs = <<>>
    /\ session_state \in [Sessions -> [user : {PyNone}, device_id : Devices]]
    /\ rankings = <<>>
    /\ in_flight = <<>>

NextApproval ==
    \/ /\ ~call.made
       /\ \E session \in Sessions, c \in SignUpCalls :
              SignUp(session, c.email, c.password, c.full_name, c.fault)
    \/ /\ ~call.made
       /\ \E session \in Sessions, c \in SignInCalls :
              SignIn(session, c.email, c.password, c.fault)
    \/ \E session \in Sessions : SignOut(session)
    \/ \E session \in Sessions : Page(session)
    \/ \E i \in 1..Len(users) : AdminApprovesUser(i)
    \/ \E i \in 1..Len(users), device_id \in Devices : AdminApprovesDevice(i, device_id)
    \/ AdminClearsLogs
    \/ Finish

SpecApproval == InitApproval /\ [][NextApproval]_vars

-----------------------------------------------------------------------------
(* admin_approval_auth.py: sign_up calls of several sessions at once *)

\* the sessions whose requests reach the database in any order
ConcurrentSessions == {"session-1", "session-2"}

\* the call gets as far as the select of line 104
ReachesSelect(email, password, full_name) ==
    /\ client # NoClient
    /\ ~(full_name = <<>> \/ Strip(full_name) = <<>>)
    /\ _validate_email(email)
    /\ _validate_password(password)

\* sign_up from line 105 on, the select having returned the rows existing
sign_up_insert(session, email, password, full_name, existing, fault) ==
    IF existing # <<>>
    THEN Unchanged(session, Failure(<<"Email already registered. Waiting for admin approval.">>))
    ELSE IF fault = "insert"
    THEN Unchanged(session, Failure(<<"Signup failed: ">> \o RequestError))
    ELSE IF fault = "insert_empty"
    THEN Unchanged(session, Failure(<<"Failed to create account">>))
    ELSE Outcome(Success(<<"Account created for ">> \o full_name
                             \o <<"!\n\n">> \o <<"Your account is pending admin approval.">>
                             \o <<"\n\n">> \o <<"You'll be able to login once approved by the administrator.">>),
                 Append(users, NewUser(email, password, full_name)),
                 _log_signup_request(session, email, full_name, fault),
                 session_state[session].user)

\* existing = self.client.table('users').select('email').eq(...).execute()
\* of a sign_up in the session: the rows are those stored at this moment
SignUpSelects(session, email, password, full_name) ==
    /\ ~call.made
    /\ session \notin DOMAIN in_flight
    /\ ReachesSelect(email, password, full_name)
    /\ in_flight' = [s \in DOMAIN in_flight \cup {session} |->
                        IF s = session
                        THEN [email |-> email, password |-> password, full_name |-> full_name,
                              existing |-> SelectSeq(users, LAMBDA u : u.email = Lower(email))]
                        ELSE in_flight[s]]
    /\ UNCHANGED <<hashSeed, brain, call, result, earlier, authVars, rankings>>

\* the sign_up of the session goes on from its select to its return
SignUpInserts(session, fault) ==
    /\ ~call.made
    /\ session \in DOMAIN in_flight
    /\ LET c == in_flight[session]
           outcome == sign_up_insert(session, c.email, c.password, c.full_name,
                                     c.existing, fault)
       IN  /\ Len(outcome.users) <= MaxUsers
           /\ call' = [made |-> TRUE, method |-> "AdminApprovalAuth.sign_up",
                       session |-> session, email |-> c.email, password |-> c.password,
                       full_name |-> c.full_name, fault |-> fault,
                       before |-> Before(session)]
           /\ Leaves(session, outcome)
    /\ in_flight' = [s \in DOMAIN in_flight \ {session} |-> in_flight[s]]
    /\ UNCHANGED <<hashSeed, brain, earlier, client, rankings>>

InitConcurrent ==
    /\ InitAgent({QuestionJob})
    /\ hashSeed = 0
    /\ client = SupabaseClient
    /\ users = <<>>
    /\ activity_logs = <<>>
    /\ session_state \in [ConcurrentSessions -> [user : {PyNone}, device_id : Devices]]
    /\ rankings = <<>>
    /\ in_flight = <<>>

NextConcurrent ==
    \/ /\ ~call.made
       /\ \E session \in ConcurrentSessions, email \in {AnnEmail, AnnEmailTyped, DanEmail} :
              SignUpSelects(session, email, GoodPassword, FullName)
    \/ /\ ~call.made
       /\ \E session \in ConcurrentSessions, fault \in {"none", "insert", "insert_empty", "log"} :
              SignUpInserts(session, fault)
    \/ Finish

SpecConcurrent == InitConcurrent /\ [][NextConcurrent]_vars

----------------------------------------------------------------------------
(* Properties of AdminApprovalAuth *)

SignUpCall == call.made /\ call.method = "AdminApprovalAuth.sign_up"

SignInCall == call.made /\ call.method = "AdminApprovalAuth.sign_in"

\* the rows the login of the call in progress selected
SelectedRows ==
    SelectSeq(call.before.users, LAMBDA u : /\ u.email = Lower(call.email)
                                            /\ u.password_hash = sha256(call.password))

\* the call in progress has put a user in its session
SetsSessionUser == session_state[call.session].user # call.before.user

\* C18: a user cannot log in until an admin approves.  sign_up changes the
\* users table only by adding one record with is_approved false, no approver
\* and no approved devices; sign_in returns success, or sets the session
\* user, only when the stored record matching the e-mail and the password
\* hash has is_approved true; and across any sequence of calls the user of
\* a session is one whose record an administrator has approved.
C18_ApprovalBeforeLogin ==
    /\ SignUpCall =>
           \/ users = call.before.users /\ ~result.value.success
           \/ /\ Len(users) = Len(call.before.users) + 1
              /\ SubSeq(users, 1, Len(users) - 1) = call.before.users
              /\ users[Len(users)].email = Lower(call.email)
              /\ users[Len(users)].is_approved = FALSE
              /\ users[Len(users)].approved_by = PyNone
              /\ users[Len(users)].approved_devices = <<>>
    /\ SignInCall /\ (result.value.success \/ SetsSessionUser) =>
           /\ SelectedRows # <<>>
           /\ SelectedRows[1].is_approved = TRUE
           /\ session_state[call.session].user.id = SelectedRows[1].id
    /\ \A session \in DOMAIN session_state :
           session_state[session].user # PyNone =>
               \E i \in 1..Len(users) :
                   /\ users[i].id = session_state[session].user.id
                   /\ users[i].is_approved
                   /\ users[i].approved_by = PyStr(admin_email)

\* a login that succeeded for an approved account while another account,
\* signed up with the same password, is still pending
C18_Witness ==
    /\ SignInCall
    /\ result.value.success
    /\ SetsSessionUser
    /\ Len(users) = 2
    /\ \E i \in 1..2 : ~users[i].is_approved /\ users[i].password_hash = sha256(call.password)

\* the device of the session of the call in progress
CurrentDevice == session_state[call.session].device_id

\* the login is one of an approved user with correct credentials, found by
\* the lookup, from a device that is not among the record's approved devices
NewDeviceLogin ==
    /\ SignInCall
    /\ call.fault # "select"
    /\ SelectedRows # <<>>
    /\ SelectedRows[1].is_approved
    /\ CurrentDevice \notin Range(SelectedRows[1].approved_devices)

\* the call in progress has added one new_device_alert for its e-mail and device
AlertInserted ==
    /\ Len(activity_logs) = Len(call.before.activity_logs) + 1
    /\ SubSeq(activity_logs, 1, Len(activity_logs) - 1) = call.before.activity_logs
    /\ activity_logs[Len(activity_logs)].action_type = "new_device_alert"
    /\ activity_logs[Len(activity_logs)].details.user_email = call.email
    /\ activity_logs[Len(activity_logs)].details.device_id = CurrentDevice

\* C19: a login from a new device requires admin confirmation: for an
\* approved user with correct credentials whose session device id is not in
\* the record's approved_devices, sign_in returns failure, does not set the
\* session user, and a new_device_alert entry has been inserted in
\* activity_logs when it returns; sign_in succeeds only when the device id
\* is in approved_devices.
C19_NewDeviceAlert ==
    /\ NewDeviceLogin =>
           /\ ~result.value.success
           /\ ~SetsSessionUser
           /\ AlertInserted
    /\ SignInCall /\ result.value.success =>
           CurrentDevice \in Range(SelectedRows[1].approved_devices)

----------------------------------------------------------------------------
(* authentication.py: AuthManager, whose accounts are kept by the hosted    *)
(* authentication service.  A call is modelled with the answer the service *)
(* gives to its request, and leaves the list of the requests it has sent.  *)

ALLOWED_EMAILS ==
    << <<"a", "r", "u", "n", "a", "v", "1", "1", "a", "3", "1", ".", "h", "t", "s", "2", "1",
         "@", "g", "m", "a", "i", "l", ".", "c", "o", "m">>,
       <<"a", "r", "u", "n", "a", "v", ".", "j", "s", "r", ".", "0", "6", "0", "4",
         "@", "g", "m", "a", "i", "l", ".", "c", "o", "m">> >>

\* the argument of self.client.auth.sign_up
SignUpRequest(email, password, full_name) ==
    [request |-> "auth.sign_up", email |-> email, password |-> password,
     options |-> [data |-> [full_name |-> Strip(full_name)]]]

\* the answers of the service: a response with or without a user, or an
\* exception with its text
UserCreated == [kind |-> "response", user |-> [email |-> "created"]]

NoUserCreated == [kind |-> "response", user |-> PyNone]

RaisedAlreadyRegistered ==
    [kind |-> "raised", error_msg |-> <<"User ", "already registered">>]

RaisedOther == [kind |-> "raised", error_msg |-> RequestError]

\* the return value of a call and the requests it sent to the service
Answer(ret, requests) == [ret |-> ret, requests |-> requests]

\* sign_up without the check of ALLOWED_EMAILS
AuthManager_sign_up_Unrestricted(email, password, full_name, response) ==
    IF client = NoClient
    THEN Answer(Failure(<<"Authentication not configured">>), <<>>)
    ELSE IF full_name = <<>> \/ Strip(full_name) = <<>>
    THEN Answer(Failure(<<"Please enter your full name">>), <<>>)
    ELSE IF ~_validate_email(email)
    THEN Answer(Failure(<<"Invalid email format">>), <<>>)
    ELSE IF ~_validate_password(password)
    THEN Answer(Failure(<<"Password must be at least 8 characters with letters and numbers">>), <<>>)
    ELSE IF response.kind = "raised"
    THEN IF IsSubstr(<<"already registered">>, response.error_msg)
         THEN Answer(Failure(<<"Email already registered">>),
                     <<SignUpRequest(email, password, full_name)>>)
         ELSE Answer(Failure(<<"Signup failed: ">> \o response.error_msg),
                     <<SignUpRequest(email, password, full_name)>>)
    ELSE IF response.user # PyNone
    THEN Answer(Success(<<"Welcome ">> \o full_name
                            \o <<"! Please check your email to verify your account.">>),
                <<SignUpRequest(email, password, full_name)>>)
    ELSE Answer(Failure(<<"Failed to create account">>),
                <<SignUpRequest(email, password, full_name)>>)

\* AuthManager.sign_up
AuthManager_sign_up(email, password, full_name, response) ==
    IF client = NoClient
    THEN Answer(Failure(<<"Authentication not configured">>), <<>>)
    ELSE IF Lower(email) \notin {Lower(ALLOWED_EMAILS[i]) : i \in 1..Len(ALLOWED_EMAILS)}
    THEN Answer(Failure(<<"Signup restricted. Only authorized emails can register.">>), <<>>)
    ELSE IF full_name = <<>> \/ Strip(full_name) = <<>>
    THEN Answer(Failure(<<"Please enter your full name">>), <<>>)
    ELSE IF ~_validate_email(email)
    THEN Answer(Failure(<<"Invalid email format">>), <<>>)
    ELSE IF ~_validate_password(password)
    THEN Answer(Failure(<<"Password must be at least 8 characters with letters and numbers">>), <<>>)
    ELSE IF response.kind = "raised"
    THEN IF IsSubstr(<<"already registered">>, response.error_msg)
         THEN Answer(Failure(<<"Email already registered">>),
                     <<SignUpRequest(email, password, full_name)>>)
         ELSE Answer(Failure(<<"Signup failed: ">> \o response.error_msg),
                     <<SignUpRequest(email, password, full_name)>>)
    ELSE IF response.user # PyNone
    THEN Answer(Success(<<"Welcome ">> \o full_name
                            \o <<"! Please check your email to verify your account.">>),
                <<SignUpRequest(email, password, full_name)>>)
    ELSE Answer(Failure(<<"Failed to create account">>),
                <<SignUpRequest(email, password, full_name)>>)

(* Inputs of the sign-up form *)

\* the first allowed address as a user may type it
AllowedEmailTyped == <<"A">> \o Tail(ALLOWED_EMAILS[1])

\* the second one with its domain typed as Gmail.com
OtherAllowedEmailTyped ==
    [i \in 1..Len(ALLOWED_EMAILS[2]) |->
        IF i = 17 THEN "G" ELSE ALLOWED_EMAILS[2][i]]

ManagerEmails ==
    {ALLOWED_EMAILS[1], ALLOWED_EMAILS[2], AllowedEmailTyped, OtherAllowedEmailTyped,
     AnnEmail, BadEmail, <<>>}

ManagerPasswords == {GoodPassword, OtherPassword, WeakPassword}

ManagerNames == {FullName, BlankName, <<>>}

ServiceAnswers == {UserCreated, NoUserCreated, RaisedAlreadyRegistered, RaisedOther}

\* success, message = auth_manager.sign_up(email, password, full_name)
ManagerSignUp(email, password, full_name, response) ==
    LET answer == AuthManager_sign_up(email, password, full_name, response)
    IN  /\ ~call.made
        /\ call' = [made |-> TRUE, method |-> "AuthManager.sign_up",
                    email |-> email, password |-> password, full_name |-> full_name,
                    requests |-> answer.requests]
        /\ result' = Returned(answer.ret)
        /\ UNCHANGED <<hashSeed, brain, earlier, authVars, dbVars>>

\* the argument of self.client.auth.sign_in_with_password
SignInRequest(email, password) ==
    [request |-> "auth.sign_in_with_password", email |-> email, password |-> password]

\* the answers of the service to a login: a response with the user and a
\* session, a response without a user, or an exception with its text
SignedIn(email) ==
    [kind |-> "response",
     user |-> [id |-> "user-id", email |-> email,
               user_metadata |-> [full_name |-> FullName], created_at |-> Now],
     session |-> [access_token |-> "access-token"]]

NotSignedIn == [kind |-> "response", user |-> PyNone]

RaisedInvalidCredentials ==
    [kind |-> "raised",
     error_msg |-> <<"I", "n", "v", "a", "l", "i", "d", " ", "l", "o", "g", "i", "n">>]

\* what a login leaves behind: its return value, the requests sent, the
\* session's user and access token
LoginAnswer(ret, requests, user, access_token) ==
    [ret |-> ret, requests |-> requests, user |-> user, access_token |-> access_token]

\* AuthManager.sign_in
AuthManager_sign_in(session, email, password, response) ==
    LET kept(ret, requests) ==
            LoginAnswer(ret, requests, session_state[session].user,
                        session_state[session].access_token)
    IN  IF client = NoClient
        THEN kept(Failure(<<"Authentication not configured">>), <<>>)
        ELSE IF response.kind = "raised"
        THEN IF IsSubstr(<<"i", "n", "v", "a", "l", "i", "d">>, Lower(response.error_msg))
             THEN kept(Failure(<<"Invalid email or password">>),
                       <<SignInRequest(email, password)>>)
             ELSE kept(Failure(<<"Login failed: ">> \o response.error_msg),
                       <<SignInRequest(email, password)>>)
        ELSE IF response.user # PyNone
        THEN LoginAnswer(Success(<<"Welcome back, ">> \o response.user.user_metadata.full_name
                                     \o <<"!">>),
                         <<SignInRequest(email, password)>>,
                         [id |-> response.user.id,
                          email |-> response.user.email,
                          full_name |-> response.user.user_metadata.full_name,
                          created_at |-> response.user.created_at],
                         response.session.access_token)
        ELSE kept(Failure(<<"Invalid credentials">>), <<SignInRequest(email, password)>>)

LoginAnswers(email) == {SignedIn(email), NotSignedIn, RaisedInvalidCredentials, RaisedOther}

\* success, message = auth_manager.sign_in(email, password)
ManagerSignIn(session, email, password, response) ==
    LET answer == AuthManager_sign_in(session, email, password, response)
    IN  /\ ~call.made
        /\ call' = [made |-> TRUE, method |-> "AuthManager.sign_in", session |-> session,
                    email |-> email, password |-> password,
                    requests |-> answer.requests, before |-> session_state[session]]
        /\ result' = Returned(answer.ret)
        /\ session_state' = [session_state EXCEPT ![session].user = answer.user,
                                                  ![session].access_token = answer.access_token]
        /\ UNCHANGED <<hashSeed, brain, earlier, client, users, activity_logs, dbVars>>

\* auth_manager.sign_out(): the user and the token are cleared whether or
\* not the service answers
ManagerSignOut(session) ==
    /\ ~call.made
    /\ session_state[session].user # PyNone
    /\ session_state' = [session_state EXCEPT ![session].user = PyNone,
                                              ![session].access_token = PyNone]
    /\ UNCHANGED <<hashSeed, brain, call, result, earlier, client, users, activity_logs, dbVars>>

\* a page wrapped by the require_auth of authentication.py is requested
ManagerPage(session) ==
    /\ ~call.made
    /\ call' = [made |-> TRUE, method |-> "page", session |-> session,
                invoked |-> require_auth(session), before |-> session_state[session]]
    /\ result' = Returned(PyNone)
    /\ UNCHANGED <<hashSeed, brain, earlier, authVars, dbVars>>

\* AuthManager() in a new session: the client as configured, no user, no token
InitManager ==
    /\ InitAgent({QuestionJob})
    /\ hashSeed = 0
    /\ client \in {NoClient, SupabaseClient}
    /\ users = <<>>
    /\ activity_logs = <<>>
    /\ session_state \in [Sessions -> [user : {PyNone}, access_token : {PyNone}]]
    /\ rankings = <<>>
    /\ in_flight = <<>>

NextManager ==
    \/ /\ ~call.made
       /\ \E email \in ManagerEmails, password \in ManagerPasswords,
             full_name \in ManagerNames, response \in ServiceAnswers :
              ManagerSignUp(email, password, full_name, response)
    \/ /\ ~call.made
       /\ \E session \in Sessions, email \in {ALLOWED_EMAILS[1], AnnEmail},
             password \in {GoodPassword} :
              \E response \in LoginAnswers(email) :
                  ManagerSignIn(session, email, password, response)
    \/ \E session \in Sessions : ManagerSignOut(session)
    \/ \E session \in Sessions : ManagerPage(session)
    \/ Finish

SpecManager == InitManager /\ [][NextManager]_vars

----------------------------------------------------------------------------
(* Properties of AuthManager *)

ManagerSignUpCall == call.made /\ call.method = "AuthManager.sign_up"

\* the e-mail of the call, compared case-insensitively, is in the allow-list
Allowed ==
    \E i \in 1..Len(ALLOWED_EMAILS) : Lower(call.email) = Lower(ALLOWED_EMAILS[i])

\* the messages of the input validation
ValidationMessages ==
    {<<"Please enter your full name">>, <<"Invalid email format">>,
     <<"Password must be at least 8 characters with letters and numbers">>}

\* C20: only allowed e-mails can sign up.  The remote account-creation call
\* is made only when the e-mail, compared case-insensitively, is in the
\* fixed allow-list, and it is made for an allowed e-mail typed in another
\* letter case; for every other e-mail sign_up returns failure before any
\* validation (never a validation message, whatever the name and password)
\* and without contacting the remote service.
C20_AllowListFirst ==
    ManagerSignUpCall =>
        /\ call.requests # <<>> => Allowed
        /\ Len(call.requests) <= 1
        /\ /\ Allowed
           /\ client # NoClient
           /\ Strip(call.full_name) # <<>>
           /\ _validate_password(call.password)
           => call.requests = <<SignUpRequest(call.email, call.password, call.full_name)>>
        /\ ~Allowed =>
               /\ ~result.value.success
               /\ call.requests = <<>>
               /\ result.value.message \notin ValidationMessages
               /\ client # NoClient =>
                      result.value.message =
                          <<"Signup restricted. Only authorized emails can register.">>

\* a well-formed e-mail outside the allow-list, with a blank name and a weak
\* password, is refused as restricted
C20_Witness ==
    /\ ManagerSignUpCall
    /\ client # NoClient
    /\ call.email = AnnEmail
    /\ call.full_name = BlankName
    /\ call.password = WeakPassword
    /\ ~result.value.success
    /\ call.requests = <<>>

----------------------------------------------------------------------------
(* Further properties of AgentBrain *)

JobRequired == Get(brain.job_data, "required_skills", <<>>)

JobMustHave == Get(brain.job_data, "must_have_skills", <<>>)

\* the critical skills are the skills of the two lists, each once
CriticalIsUnion ==
    /\ Range(brain.critical_skills) = Range(JobRequired) \cup Range(JobMustHave)
    /\ \A i, j \in 1..Len(brain.critical_skills) :
           brain.critical_skills[i] = brain.critical_skills[j] => i = j

\* a step that starts analyze_candidate
AnalyzeStep == ~call.made /\ call'.made

\* C21: the critical-skill set of an AgentBrain is the union of the job's
\* required and must-have skills, deduplicated case-sensitively: it holds
\* every skill of either list, nothing else, no string twice, and strings
\* that differ only in letter case as distinct entries; and
\* analyze_candidate never changes it.
C21_CriticalUnion ==
    /\ []CriticalIsUnion
    /\ [][AnalyzeStep => brain'.critical_skills = brain.critical_skills]_vars

\* an analysis done by a brain whose job repeats "p" across the two lists and
\* spells it "P" as well: two critical skills
C21_Witness ==
    /\ call.made
    /\ JobRequired = << <<"p">>, <<"P">> >>
    /\ JobMustHave = << <<"p">>, <<"p">> >>
    /\ Len(brain.critical_skills) = 2

\* the critical skills of the job that occur, letter case ignored, in at
\* least one matched skill of the call in progress
CriticalFound ==
    {i \in 1..Len(brain.critical_skills) :
        \E k \in 1..Len(CallMatched) :
            IsSubstr(Lower(brain.critical_skills[i]), Lower(CallMatched[k]))}

\* C22: the critical-skill coverage factor of the confidence computation is
\* 1.5 x (number of critical skills occurring as a case-insensitive
\* substring of at least one matched skill) / (number of critical skills),
\* unclamped, and 1.0 when the critical-skill set is empty.
C22_CoverageOfCriticalSet ==
    call.made =>
        CriticalCoverageFactor(brain, CallMatched) =
            IF Len(brain.critical_skills) = 0 THEN Frac(1, 1)
            ELSE Frac(3 * Cardinality(CriticalFound), 2 * Len(brain.critical_skills))

CallMissing == Get(call.match_scores, "missing_skills", <<>>)

\* some matched skill of the call contains c, letter case ignored
Evidenced(c) ==
    \E k \in 1..Len(CallMatched) : IsSubstr(Lower(c), Lower(CallMatched[k]))

\* how many times x occurs in the list s
Occurrences(s, x) == Cardinality({k \in 1..Len(s) : s[k] = x})

\* C23: a critical skill c is added to critical_gaps, and the note "No
\* evidence of c" to missing_info, if and only if no matched skill contains
\* c as a case-insensitive substring; each such skill is added exactly once,
\* and the contents of missing_skills play no part.
C23_SkillGaps ==
    Analysed =>
        \A i \in 1..Len(brain.critical_skills) :
            LET c == brain.critical_skills[i]
                times == IF Evidenced(c) THEN 0 ELSE 1
            IN  /\ Occurrences(Analysis.critical_gaps, c) = times
                /\ Occurrences(Analysis.missing_info, <<"No evidence of ">> \o c) = times

\* "g" is critical and unmatched, "p" is critical and matched as "Py", and
\* missing_skills names both: the only skill gap is "g"
C23_Witness ==
    /\ Analysed
    /\ Range(brain.critical_skills) = {<<"p">>, <<"g">>}
    /\ CallMatched = << <<"P", "y">> >>
    /\ CallMissing = << <<"p">>, <<"g">> >>
    /\ Occurrences(Analysis.critical_gaps, <<"g">>) = 1
    /\ Occurrences(Analysis.critical_gaps, <<"p">>) = 0

\* the entries of the experience list with a description under 50 characters
ShortEntries == {i \in 1..Len(CallExperience) : DescLen(CallExperience[i]) < 50}

\* C24: critical_gaps contains "work_experience" if and only if the
\* candidate's experience list is empty or absent; when the list is
\* non-empty and more than half of its entries have a description shorter
\* than 50 characters, the note "Work experience lacks detail" is added to
\* missing_info and nothing is added to critical_gaps; with exactly half or
\* fewer short entries no note is added.
C24_ExperienceGaps ==
    Analysed =>
        /\ Occurrences(Analysis.critical_gaps, <<"work_experience">>)
               = IF CallExperience = <<>> THEN 1 ELSE 0
        /\ Occurrences(Analysis.missing_info, <<"No work experience details">>)
               = IF CallExperience = <<>> THEN 1 ELSE 0
        /\ Occurrences(Analysis.missing_info, <<"Work experience lacks detail">>)
               = IF /\ CallExperience # <<>>
                    /\ 2 * Cardinality(ShortEntries) > Len(CallExperience)
                 THEN 1 ELSE 0
        /\ CallExperience # <<>> =>
               \A k \in 1..Len(Analysis.critical_gaps) :
                   Analysis.critical_gaps[k] \in Range(brain.critical_skills)

\* two entries, one of 49 and one of 50 characters: exactly half are short,
\* and no note is made
C24_Witness ==
    /\ Analysed
    /\ Len(CallExperience) = 2
    /\ DescLen(CallExperience[1]) = 49
    /\ DescLen(CallExperience[2]) = 50
    /\ Occurrences(Analysis.missing_info, <<"Work experience lacks detail">>) = 0

\* the job's minimum-experience threshold, 0 when absent
JobMinExperience == Get(brain.job_data, "min_experience", 0)

\* C25: the note "No projects mentioned" is added to missing_info if and
\* only if the job's minimum-experience threshold is below 2 (absent counts
\* as 0) and the candidate has no projects; "projects" is added to
\* critical_gaps only when, in addition, the candidate has zero experience
\* entries.  For a job with minimum experience >= 2 no projects note or gap
\* is ever produced.
C25_ProjectGaps ==
    Analysed =>
        /\ Occurrences(Analysis.missing_info, <<"No projects mentioned">>)
               = IF JobMinExperience < 2 /\ CallProjects = <<>> THEN 1 ELSE 0
        /\ Occurrences(Analysis.critical_gaps, <<"projects">>)
               = IF JobMinExperience < 2 /\ CallProjects = <<>> /\ CallExperience = <<>>
                 THEN 1 ELSE 0
        /\ JobMinExperience >= 2 =>
               /\ <<"No projects mentioned">> \notin Range(Analysis.missing_info)
               /\ <<"projects">> \notin Range(Analysis.critical_gaps)

\* a job without a minimum experience, a candidate with experience and
\* without projects: the note is made, the gap is not
C25_Witness ==
    /\ Analysed
    /\ ~HasKey(brain.job_data, "min_experience")
    /\ CallExperience # <<>>
    /\ CallProjects = <<>>
    /\ <<"No projects mentioned">> \in Range(Analysis.missing_info)
    /\ <<"projects">> \notin Range(Analysis.critical_gaps)

\* the explanation the reasoning gives of a decision
DecisionLine(decision) ==
    IF decision = AUTO_SHORTLIST
    THEN <<"High confidence - automatically shortlisted">>
    ELSE IF decision = ASK_QUESTIONS
         THEN <<"Medium confidence - follow-up questions needed">>
         ELSE <<"Low confidence - does not meet requirements">>

\* the label that names a confidence level
LevelLabel(level) ==
    IF level = HIGH THEN "HIGH" ELSE IF level = MEDIUM THEN "MEDIUM" ELSE "LOW"

\* 1 when the list has entries, 0 when it has none
OneIfAny(list) == IF list = <<>> THEN 0 ELSE 1

\* C26: the reasoning list has a fixed order: first the base-score line,
\* second the confidence line with its label, then the missing-information
\* line (only when missing_info is non-empty), then the critical-gaps line
\* (only when critical_gaps is non-empty), and last exactly one
\* decision-explanation line selected by the decision value alone; the list
\* has between 3 and 5 entries, and the label on the confidence line names
\* the same level as the analysis's confidence_level.
C26_ReasoningOrder ==
    Analysed =>
        LET reasoning == Analysis.reasoning
            info == OneIfAny(Analysis.missing_info)
            gaps == OneIfAny(Analysis.critical_gaps)
        IN  /\ Len(reasoning) = 3 + info + gaps
            /\ Len(reasoning) \in 3..5
            /\ Head(reasoning[1]) = "Match score: "
            /\ Head(reasoning[2]) = "Confidence: "
            /\ reasoning[2][4] = LevelLabel(Analysis.confidence_level)
            /\ info = 1 => Head(reasoning[3]) = "Missing information: "
            /\ gaps = 1 => Head(reasoning[3 + info]) = "Critical gaps: "
            /\ reasoning[Len(reasoning)] = DecisionLine(Analysis.decision)
            /\ \A k \in 1..(Len(reasoning) - 1) :
                   reasoning[k] \notin {DecisionLine(d) :
                                           d \in {AUTO_SHORTLIST, ASK_QUESTIONS, AUTO_REJECT}}

\* five lines: score, confidence labelled MEDIUM, missing information,
\* critical gaps, and the explanation of ask_questions
C26_Witness ==
    /\ Analysed
    /\ Len(Analysis.reasoning) = 5
    /\ Analysis.confidence_level = MEDIUM
    /\ Analysis.decision = ASK_QUESTIONS
    /\ Head(Analysis.reasoning[3]) = "Missing information: "
    /\ Head(Analysis.reasoning[4]) = "Critical gaps: "
    /\ Analysis.reasoning[2][4] = "MEDIUM"
    /\ Analysis.reasoning[5] = DecisionLine(ASK_QUESTIONS)

-----------------------------------------------------------------------------
(* databasE.py: SupabaseManager *)

\* float(x) raises: of the values explored, the numbers convert and the
\* text "n/a" (or any other value) does not
FloatRaises(x) == x.type # "number"

\* the number fields of a record, converted with float()
FloatFields ==
    {"overall_score", "skills_score", "experience_score", "education_score",
     "total_experience"}

\* the record of the candidate at position i of the list
RankingRecord(job_id, i, candidate) ==
    [job_posting_id |-> job_id,
     candidate_name |-> Get(candidate, "name", PyStr(<<"Unknown">>)),
     candidate_email |-> Get(candidate, "email", PyStr(<<>>)),
     candidate_phone |-> Get(candidate, "phone", PyStr(<<>>)),
     overall_score |-> Get(candidate, "overall_score", PyNumber(0)),
     skills_score |-> Get(candidate, "skills_score", PyNumber(0)),
     experience_score |-> Get(candidate, "experience_score", PyNumber(0)),
     education_score |-> Get(candidate, "education_score", PyNumber(0)),
     ranking_position |-> i,
     matched_skills |-> Get(candidate, "matched_skills", PyList(<<>>)),
     missing_skills |-> Get(candidate, "missing_skills", PyList(<<>>)),
     total_experience |-> Get(candidate, "total_experience", PyNumber(0)),
     explanation |-> Get(candidate, "explanation", PyDict(EmptyDict)),
     created_at |-> Now]

\* for i, candidate in enumerate(rankings, 1): records.append(record)
RankingRecords(job_id, candidates) ==
    [i \in 1..Len(candidates) |-> RankingRecord(job_id, i, candidates[i])]

\* the rows of a rankings table with .eq('job_posting_id', job_id)
RowsOfJob(table, job_id) == SelectSeq(table, LAMBDA r : r.job_posting_id = job_id)

\* what save_ranking leaves behind: its return value and the rankings table
Saved(ret, table) == [ret |-> ret, rankings |-> table]

\* SupabaseManager.save_ranking: the records are built (a float() that
\* raises ends the call before any request), the rows of the job are
\* deleted, then the records are inserted when there are any; fault names
\* the request that raises
save_ranking(job_id, candidates, fault) ==
    LET deleted == SelectSeq(rankings, LAMBDA r : r.job_posting_id # job_id)
    IN  IF \E i \in 1..Len(candidates), k \in FloatFields :
               FloatRaises(Get(candidates[i], k, PyNumber(0)))
        THEN Saved(FALSE, rankings)
        ELSE IF fault = "delete"
        THEN Saved(FALSE, rankings)
        ELSE IF candidates = <<>>
        THEN Saved(TRUE, deleted)
        ELSE IF fault = "insert"
        THEN Saved(FALSE, deleted)
        ELSE Saved(TRUE, deleted \o RankingRecords(job_id, candidates))

\* the inputs explored
JobIds == {"job-1", "job-2"}

RankedAnn ==
    [name |-> PyStr(<<"Ann">>), email |-> PyStr(AnnEmail),
     overall_score |-> PyNumber(8500), skills_score |-> PyNumber(9000)]

RankedDan == [name |-> PyStr(<<"Dan">>), overall_score |-> PyNumber(7000)]

Unscored == [name |-> PyStr(<<"Eve">>), overall_score |-> PyStr(<<"n/a">>)]

RankingLists == SeqsUpTo({RankedAnn, RankedDan, Unscored}, MaxRanked)

\* db.save_ranking(job_id, rankings)
SaveRanking(job_id, candidates, fault) ==
    LET saved == save_ranking(job_id, candidates, fault)
    IN  /\ ~call.made
        /\ call' = [made |-> TRUE, method |-> "SupabaseManager.save_ranking",
                    job_id |-> job_id, rankings |-> candidates, fault |-> fault,
                    before |-> rankings]
        /\ result' = Returned(saved.ret)
        /\ rankings' = saved.rankings
        /\ UNCHANGED <<hashSeed, brain, earlier, authVars, in_flight>>

\* SupabaseManager(): the client is configured, or __init__ raises
InitRankings ==
    /\ InitAgent({QuestionJob})
    /\ hashSeed = 0
    /\ client = SupabaseClient
    /\ users = <<>>
    /\ activity_logs = <<>>
    /\ session_state = <<>>
    /\ rankings = <<>>
    /\ in_flight = <<>>

NextRankings ==
    \/ /\ ~call.made
       /\ \E job_id \in JobIds, candidates \in RankingLists,
             fault \in {"none", "delete", "insert"} :
              SaveRanking(job_id, candidates, fault)
    \/ Finish

SpecRankings == InitRankings /\ [][NextRankings]_vars

-----------------------------------------------------------------------------
\* Properties of SupabaseManager

SaveRankingCall == call.made /\ call.method = "SupabaseManager.save_ranking"

\* C29: save_ranking replaces a job's rankings atomically.  When it returns
\* True the rankings stored for job_id are exactly the records built from
\* the list, with ranking_position 1..n in the order of the list; when it
\* returns False the rankings stored for job_id are those stored before the
\* call; the rankings of the other jobs are unchanged in both cases.
C29_ReplacesAtomically ==
    SaveRankingCall =>
        /\ result.value = TRUE
               => RowsOfJob(rankings, call.job_id)
                      = RankingRecords(call.job_id, call.rankings)
        /\ result.value = FALSE
               => RowsOfJob(rankings, call.job_id) = RowsOfJob(call.before, call.job_id)
        /\ \A job_id \in JobIds \ {call.job_id} :
               RowsOfJob(rankings, job_id) = RowsOfJob(call.before, job_id)

-----------------------------------------------------------------------------
\* Properties of the session

ManagerSignInCall == call.made /\ call.method = "AuthManager.sign_in"

\* the login of AuthManager that returned failure left the user and the
\* access token of its session as they were
ManagerFailureKeepsSession ==
    (ManagerSignInCall /\ ~result.value.success)
        => /\ session_state[call.session].user = call.before.user
           /\ session_state[call.session].access_token = call.before.access_token

\* C27: a sign_in call that returns failure leaves the session unchanged.
\* Whenever AdminApprovalAuth.sign_in or AuthManager.sign_in returns
\* (False, message), also when a request to the backend raised part-way
\* through, the user of the session (and its access token) is the value
\* from before the call.
C27_FailureKeepsSession ==
    /\ (SignInCall /\ ~result.value.success)
            => session_state[call.session].user = call.before.user
    /\ ManagerFailureKeepsSession

PageCall == call.made /\ call.method = "page"

\* the wrapped function is invoked only with a user in the session
InvokedOnlySignedIn ==
    (PageCall /\ call.invoked) => session_state[call.session].user # PyNone

\* the step is a call of AdminApprovalAuth.sign_in in the session
SignInStep(session) ==
    /\ ~call.made
    /\ call'.made
    /\ call'.method = "AdminApprovalAuth.sign_in"
    /\ call'.session = session

\* the session gets a user only from a sign_in of that session, and a page
\* request leaves the session as it is
UserOnlyFromSignIn ==
    \A session \in Sessions :
        /\ (/\ session_state'[session].user # session_state[session].user
            /\ session_state'[session].user # PyNone) => SignInStep(session)
        /\ (~call.made /\ call'.made /\ call'.method = "page")
                => session_state' = session_state

\* C28: a function wrapped by require_auth runs only while a user is
\* authenticated.  Over any sequence of sign_in, sign_out and page calls
\* the wrapped function is invoked only when the user of the session is
\* not None at the time of the call, and once sign_out has cleared the
\* user only a sign_in can set it again, so no page runs in between.
C28_PagesOnlySignedIn ==
    /\ []InvokedOnlySignedIn
    /\ [][UserOnlyFromSignIn]_vars

\* a page is requested after a login and a sign_out (the record keeps the
\* time of the login, the session has no user) and is not invoked
C28_Witness ==
    /\ PageCall
    /\ ~call.invoked
    /\ session_state[call.session].user = PyNone
    /\ \E i \in 1..Len(users) : users[i].last_login # PyNone

\* the e-mail of the sign_up call had a record when the call went on from
\* its select
HadRecord ==
    \E i \in 1..Len(call.before.users) : call.before.users[i].email = Lower(call.email)

\* C30: sign_up never creates a second users record for an e-mail, compared
\* lower-cased, that already has one.  After any sequence or interleaving
\* of sign_up calls, two calls for the same e-mail from different sessions
\* included, the users table holds at most one record per lower-cased
\* e-mail, and a sign_up for an existing e-mail returns failure with the
\* users table unchanged.
C30_OneRecordPerEmail ==
    /\ \A i, j \in 1..Len(users) : users[i].email = users[j].email => i = j
    /\ (SignUpCall /\ HadRecord)
           => /\ ~result.value.success
              /\ users = call.before.users

====
